---- MODULE Spec2Model ----
(***************************************************************************)
(* Storefront state holders and their backend tables.                      *)
(*                                                                         *)
(*   - the cart store (src/src/stores/cartStore.ts): items, addItem,       *)
(*     removeItem, updateQuantity, clearCart, loadCart, getTotalItems,     *)
(*     getTotalPrice;                                                      *)
(*   - the part of the auth store the cart reads (authStore.ts): user,     *)
(*     isAdmin, signIn, signOut, checkAdminStatus;                         *)
(*   - the analytics helper trackProductInteraction (lib/supabase.ts) and  *)
(*     the stored procedure update_product_analytics (migrations);         *)
(*   - the tables shopping_carts, cart_items, product_analytics and        *)
(*     user_profiles.                                                      *)
(*                                                                         *)
(* Every backend round trip has an outcome drawn from Outcomes: "ok", an   *)
(* error result ("error": { data: null, error }) or a thrown exception     *)
(* ("throw").  Prices are whole numbers of cents.  A cart line keeps the   *)
(* fields the store reads and writes (product_id, price, quantity); id,    *)
(* name and image_url are carried through untouched by every operation and *)
(* are left out.  Tables are sequences of rows in insertion order.         *)
(***************************************************************************)
EXTENDS Integers, Sequences, FiniteSets, TLC

\* ------------------------------------------------------------------ bounds

MaxLines == 2
MaxRows == 2
MaxQty == 2
MaxCount == 1
MaxAdds == 3
MaxCalls == 2
MaxInits == 2
MaxClock == 2
MaxImages == 2
MaxRetries == 3
MaxKeys == 102
MaxOrders == 3
MaxStarts == 2
MaxLookups == 2
maxImages == 3
MaxSelected == 4

Products == {"A", "B"}
Prices == {1, 2}
Users == {"u1"}
Callers == {"c1", "c2"}
Increments == {1, 2}
Days == {1, 2}
\* Quantities the storefront's add-to-cart buttons pass, and the quantities
\* the store's addItem and updateQuantity accept.
AddQuantities == 1..MaxQty
QtyInputs == (0 - 1)..MaxQty

NoUser == "none"
NoCart == 0

Outcomes == {"ok", "error", "throw"}
Metrics == {"views", "likes", "saves", "shares", "cart_adds", "purchases"}

\* ------------------------------------------------------------------ state

VARIABLES
  user,               \* authStore.user (NoUser = null)
  isAdmin,            \* authStore.isAdmin
  items,              \* cartStore.items
  products,           \* table products: product id -> price
  user_profiles,      \* table user_profiles: user id -> "none" | "member" | "admin"
  shopping_carts,     \* table shopping_carts: rows [id, user_id]
  cart_items,         \* table cart_items: rows [cart_id, product_id, quantity, unit_price]
  product_analytics,  \* table product_analytics: rows [product_id, date, six counters, revenue]
  today,              \* CURRENT_DATE on the database server
  pending,            \* update_product_analytics calls in flight, per caller
  lastOp,             \* history: the operation that ran last and its inputs
  rejected,           \* history: the last operation's promise rejected
  rpcCalls,           \* history: stored-procedure calls issued by the last operation
  expected,           \* history: the items the last operation leaves when no call fails
  ledger,             \* history: what addItem calls added to a fresh cart
  applied,            \* history: increments executed per (product, date, metric)
  issued,             \* history: increments invoked per (product, metric)
  isLoading,          \* authStore.isLoading
  initRun,            \* initialize(): "idle", or "fetching" while getUser() is awaited
  listeners,          \* onAuthStateChange callbacks subscribed so far
  returned,           \* history: the { error } the last signUp returned
  bucket,             \* storage bucket product-images: the paths of its blobs
  product_media,      \* table product_media: rows [product_id, path, is_primary, display_order]
  now,                \* Date.now(), as a tick per upload batch
  lastUpload,         \* history: the last uploadProductImage call and what it did
  lastSubmit,         \* history: the last product form submission and what it did
  image,              \* an OptimizedImage: its props, imageState, currentSrc, and history
  load,               \* the loadImageWithRetry call: its arguments, position and history
  imageCache,         \* imageCache.cache: entries [key, value] in insertion order
  orders,             \* table orders: rows [order_number, subtotal, ..., total_amount]
  order_number_seq,   \* sequence order_number_seq: the value nextval returned last
  orderLog,           \* history: per order insert the row sent, the number, the outcome
  running,            \* cart store calls in flight, per caller: handler, position, arguments
  lookups,            \* checkAdminStatus selects in flight, per user whose row they read
  uploader            \* the ImageUploader: its props, the images list and the selection in progress

vars == <<user, isAdmin, items, products, user_profiles, shopping_carts, cart_items,
          product_analytics, today, pending, lastOp, rejected, rpcCalls,
          expected, ledger, applied, issued,
          isLoading, initRun, listeners, returned,
          bucket, product_media, now, lastUpload, lastSubmit, image, load, imageCache, orders, order_number_seq, orderLog, running, lookups, uploader>>

authVars == <<user, isAdmin, user_profiles>>
cartTables == <<shopping_carts, cart_items>>
analyticsVars == <<product_analytics, today, pending, applied, issued>>
cartVars == <<items, expected, ledger, cartTables>>
sessionVars == <<isLoading, initRun, listeners, returned>>
\* The state outside the cart store, the session user and the analytics table.
mediaVars == <<bucket, product_media, now, lastUpload, lastSubmit>>
renderVars == <<image, load>>
orderVars == <<orders, order_number_seq, orderLog>>
pageVars == <<imageCache, orderVars, running, lookups, uploader>>
\* The state of the stores, the tables, the bucket and the rendered image.
siteVars == <<authVars, sessionVars, products, cartVars, analyticsVars, mediaVars,
             renderVars>>
\* What the image cache, the orders table and the cart calls leave alone.
cacheFrame == <<siteVars, orderVars, running, lookups, uploader>>
orderFrame == <<siteVars, imageCache, running, lookups, uploader>>
raceFrame == <<authVars, sessionVars, products, mediaVars, renderVars, imageCache,
               orderVars, lookups, uploader>>
lookupFrame == <<user_profiles, sessionVars, products, cartVars, analyticsVars,
                 mediaVars, renderVars, imageCache, orderVars, running, uploader>>
uploaderFrame == <<siteVars, imageCache, orderVars, running, lookups>>
uiVars == <<sessionVars, mediaVars, renderVars, pageVars>>
\* The state an auth store handler never touches.
storefrontVars == <<products, cartVars, analyticsVars, mediaVars, renderVars, pageVars>>

\* ------------------------------------------------------------------ helpers

RECURSIVE SumSeq(_)
SumSeq(s) == IF s = <<>> THEN 0 ELSE Head(s) + SumSeq(Tail(s))

RECURSIVE SumOver(_, _)
SumOver(S, f) ==
  IF S = {} THEN 0
  ELSE LET x == CHOOSE y \in S : TRUE IN f[x] + SumOver(S \ {x}, f)

Indices(s) == 1..Len(s)

Failed(o) == o # "ok"

\* ------------------------------------------------------------------ tables

\* .from('shopping_carts').select('id').eq('user_id', user.id).maybeSingle():
\* the id of the user's cart row, NoCart when there is none.
CartOf(carts, u) ==
  LET hit == {i \in Indices(carts) : carts[i].user_id = u}
  IN IF hit = {} THEN NoCart ELSE carts[CHOOSE i \in hit : TRUE].id

\* The result the handler sees in `cart`: data is null on an error result.
SelectCart(carts, u, outcome) ==
  IF outcome = "ok" THEN CartOf(carts, u) ELSE NoCart

CartRow(id, u) == [id |-> id, user_id |-> u]

ItemRow(cartId, p, q, pr) ==
  [cart_id |-> cartId, product_id |-> p, quantity |-> q, unit_price |-> pr]

\* The rows of one cart, in table order.
RowsOfCart(rows, cartId) == SelectSeq(rows, LAMBDA r : r.cart_id = cartId)

\* .delete().eq('cart_id', cart.id).eq('product_id', productId)
DeleteItem(rows, cartId, p) ==
  SelectSeq(rows, LAMBDA r : ~(r.cart_id = cartId /\ r.product_id = p))

\* .update({ quantity }).eq('cart_id', cart.id).eq('product_id', productId)
UpdateItem(rows, cartId, p, q) ==
  [i \in Indices(rows) |->
     IF rows[i].cart_id = cartId /\ rows[i].product_id = p
     THEN [rows[i] EXCEPT !.quantity = q]
     ELSE rows[i]]

\* .delete().eq('cart_id', cart.id)
DeleteAllItems(rows, cartId) == SelectSeq(rows, LAMBDA r : r.cart_id # cartId)

\* ------------------------------------------------------------------ analytics

\* CASE WHEN p_metric = '<column>' THEN p_increment ELSE 0 END
BumpEveryColumn(metric, column, inc) == inc

Bump(metric, column, inc) == IF metric = column THEN inc ELSE 0

\* ON CONFLICT (product_id, date): the rows the insert conflicts with.
ConflictRowsNone(tbl, p, d) == {}

ConflictRows(tbl, p, d) ==
  {i \in Indices(tbl) : tbl[i].product_id = p /\ tbl[i].date = d}

\* The stored procedure: one INSERT ... ON CONFLICT DO UPDATE statement.
update_product_analytics(tbl, p, metric, inc, d) ==
  LET hit == ConflictRows(tbl, p, d)
  IN IF hit = {}
     THEN Append(tbl, [product_id |-> p, date |-> d,
                       views     |-> Bump(metric, "views", inc),
                       likes     |-> Bump(metric, "likes", inc),
                       saves     |-> Bump(metric, "saves", inc),
                       shares    |-> Bump(metric, "shares", inc),
                       cart_adds |-> Bump(metric, "cart_adds", inc),
                       purchases |-> Bump(metric, "purchases", inc),
                       revenue   |-> 0])
     ELSE [i \in Indices(tbl) |->
             IF i \in hit
             THEN [tbl[i] EXCEPT
                     !.views     = @ + Bump(metric, "views", inc),
                     !.likes     = @ + Bump(metric, "likes", inc),
                     !.saves     = @ + Bump(metric, "saves", inc),
                     !.shares    = @ + Bump(metric, "shares", inc),
                     !.cart_adds = @ + Bump(metric, "cart_adds", inc),
                     !.purchases = @ + Bump(metric, "purchases", inc)]
             ELSE tbl[i]]

\* try { await supabase.rpc(...) } catch: does the helper's promise reject?
trackRejectsOnThrow(outcome) == outcome = "throw"

trackRejects(outcome) == FALSE

\* Stored-procedure calls one invocation issues: one, with no retry loop.
rpcAttempts(outcome) == 1

trackProductInteraction(tbl, d, p, metric, outcome) ==
  [analytics |-> IF outcome = "ok"
                 THEN update_product_analytics(tbl, p, metric, 1, d)
                 ELSE tbl,
   rejected  |-> trackRejects(outcome),
   calls     |-> rpcAttempts(outcome)]

\* ------------------------------------------------------------------ cart store

Line(p, pr, q) == [product_id |-> p, price |-> pr, quantity |-> q]

\* get().items.find(item => item.product_id === product.id): index, 0 if none
FindItem(its, p) ==
  LET hit == {i \in Indices(its) : its[i].product_id = p}
  IN IF hit = {} THEN 0 ELSE CHOOSE i \in hit : \A j \in hit : i <= j

\* get().items.filter(item => item.product_id !== productId)
RemoveLines(its, p) == SelectSeq(its, LAMBDA l : l.product_id # p)

\* get().items.map(item => item.product_id === productId ? {...item, quantity} : item)
SetQuantity(its, p, q) ==
  [i \in Indices(its) |->
     IF its[i].product_id = p THEN [its[i] EXCEPT !.quantity = q] ELSE its[i]]

\* cart.cart_items.map(item => ({ product_id, price: unit_price, quantity }))
LinesOfRows(rows) ==
  [i \in Indices(rows) |->
     Line(rows[i].product_id, rows[i].unit_price, rows[i].quantity)]

\* if (user) { ... }: the server mirror runs only with a session.
ShouldSyncAlways(u) == TRUE

ShouldSync(u) == u # NoUser

\* catch (error) { console.error(...) }: the local update stays as set.
SettleRollback(before, after, failed) == IF failed THEN before ELSE after

Settle(before, after, failed) == after

NoSync(carts, rows) == [carts |-> carts, rows |-> rows, failed |-> FALSE]

\* addItem's try block: find-or-create the cart row, then insert the item row.
SyncAddItem(carts, rows, u, p, pr, q, o) ==
  LET found      == SelectCart(carts, u, o.sel)
      needInsert == o.sel # "throw" /\ found = NoCart
      insertOk   == needInsert /\ o.ins = "ok" /\ CartOf(carts, u) = NoCart
      newId      == Len(carts) + 1
      cartId     == IF ~needInsert THEN found
                    ELSE IF insertOk THEN newId ELSE NoCart
      reached    == o.sel # "throw" /\ ~(needInsert /\ o.ins = "throw")
                    /\ cartId # NoCart
  IN [carts  |-> IF insertOk THEN Append(carts, CartRow(newId, u)) ELSE carts,
      rows   |-> IF reached /\ o.wr = "ok"
                 THEN Append(rows, ItemRow(cartId, p, q, pr))
                 ELSE rows,
      failed |-> Failed(o.sel) \/ (needInsert /\ ~insertOk)
                 \/ (reached /\ Failed(o.wr))]

\* The try block of removeItem, updateQuantity and clearCart: look the cart
\* up, then one write (given as the table it leaves) when a cart was found.
SyncWrite(carts, rows, u, o, written) ==
  LET found == SelectCart(carts, u, o.sel)
  IN [carts  |-> carts,
      rows   |-> IF found # NoCart /\ o.wr = "ok" THEN written ELSE rows,
      failed |-> Failed(o.sel) \/ (found # NoCart /\ Failed(o.wr))]

Effect(its, sync, tbl, failed, rej, calls) ==
  [items |-> its, carts |-> sync.carts, rows |-> sync.rows, analytics |-> tbl,
   failed |-> failed, rejected |-> rej, rpcCalls |-> calls]

removeItem(its, carts, rows, tbl, u, p, o) ==
  LET sync == IF ShouldSync(u)
              THEN SyncWrite(carts, rows, u, o, DeleteItem(rows, CartOf(carts, u), p))
              ELSE NoSync(carts, rows)
  IN Effect(Settle(its, RemoveLines(its, p), sync.failed), sync, tbl,
            sync.failed, FALSE, 0)

\* if (quantity <= 0) { await get().removeItem(productId); return; }
DelegatesToRemoveBelowZero(q) == q < 0

DelegatesToRemove(q) == q <= 0

updateQuantity(its, carts, rows, tbl, u, p, q, o) ==
  IF DelegatesToRemove(q)
  THEN removeItem(its, carts, rows, tbl, u, p, o)
  ELSE LET sync == IF ShouldSync(u)
                   THEN SyncWrite(carts, rows, u, o,
                                  UpdateItem(rows, CartOf(carts, u), p, q))
                   ELSE NoSync(carts, rows)
       IN Effect(Settle(its, SetQuantity(its, p, q), sync.failed), sync, tbl,
                 sync.failed, FALSE, 0)

addItem(its, carts, rows, tbl, u, d, p, pr, q, o) ==
  LET existing == FindItem(its, p)
  IN IF existing # 0
     THEN updateQuantity(its, carts, rows, tbl, u, p, its[existing].quantity + q, o)
     ELSE LET track == trackProductInteraction(tbl, d, p, "cart_adds", o.rpc)
              sync  == IF ~track.rejected /\ ShouldSync(u)
                       THEN SyncAddItem(carts, rows, u, p, pr, q, o)
                       ELSE NoSync(carts, rows)
          IN Effect(Settle(its, Append(its, Line(p, pr, q)), sync.failed), sync,
                    track.analytics, Failed(o.rpc) \/ sync.failed,
                    track.rejected, track.calls)

clearCart(its, carts, rows, tbl, u, o) ==
  LET sync == IF ShouldSync(u)
              THEN SyncWrite(carts, rows, u, o,
                             DeleteAllItems(rows, CartOf(carts, u)))
              ELSE NoSync(carts, rows)
  IN Effect(Settle(its, <<>>, sync.failed), sync, tbl, sync.failed, FALSE, 0)

\* if (!user) return; ... if (cart?.cart_items) { set({ items }) }
loadCart(its, carts, rows, tbl, u, o) ==
  IF u = NoUser
  THEN Effect(its, NoSync(carts, rows), tbl, FALSE, FALSE, 0)
  ELSE LET found == SelectCart(carts, u, o.sel)
       IN Effect(IF found # NoCart THEN LinesOfRows(RowsOfCart(rows, found)) ELSE its,
                 NoSync(carts, rows), tbl, Failed(o.sel), FALSE, 0)

getTotalItems == SumSeq([i \in Indices(items) |-> items[i].quantity])

getTotalPrice == SumSeq([i \in Indices(items) |-> items[i].price * items[i].quantity])

\* ------------------------------------------------------------------ auth store

\* data?.is_admin || false; an error result or an exception gives false.
checkAdminStatusRowFound(profiles, u, outcome) ==
  ~Failed(outcome) /\ profiles[u] # "none"

checkAdminStatus(profiles, u, outcome) ==
  IF Failed(outcome) THEN FALSE ELSE profiles[u] = "admin"

\* ------------------------------------------------------------------ history

NoCall == [product_id |-> "-", metric |-> "-", inc |-> 0, overlap |-> FALSE]

\* A cart store call: the handler that is running, the await it stands at
\* ("idle" when none), its arguments, the cart id it read, and how many
\* calls the caller has started.
Run(op, pc, p, q, cartId, n) ==
  [op |-> op, pc |-> pc, product_id |-> p, quantity |-> q, cartId |-> cartId, n |-> n]

NoRun == Run("-", "idle", "-", 0, NoCart, 0)

\* The callers other than c with a call for product p and metric m in flight.
InFlight(c, p, m) ==
  {d \in Callers \ {c} : pending[d].product_id = p /\ pending[d].metric = m}

\* The last operation: its name and inputs, whether a backend call it made
\* failed, and `count`: for a cart operation the lines the cart held for the
\* product (for clearCart and loadCart: in all) when it started, for an
\* executed analytics call the other calls for the same product and metric
\* in flight at that moment, plus one when it was sent while another was.
Op(name, p, m, q, failed, count) ==
  [op |-> name, product_id |-> p, metric |-> m, quantity |-> q,
   failed |-> failed, count |-> count]

LineCount(its, p) == Cardinality({i \in Indices(its) : its[i].product_id = p})

CartOps == {"addItem", "removeItem", "updateQuantity", "clearCart", "loadCart"}

LedgerOff ==
  [fresh |-> FALSE, calls |-> 0, sums |-> [p \in Products |-> [qty |-> 0, price |-> 0]]]

LedgerInit == [LedgerOff EXCEPT !.fresh = TRUE]

\* One more addItem(p, price pr, quantity q) on a cart that only addItem has
\* touched: the quantity added, and the price of the line when it was appended.
LedgerAdd(p, pr, q) ==
  IF ledger.fresh /\ ledger.calls < MaxAdds
  THEN [fresh |-> TRUE,
        calls |-> ledger.calls + 1,
        sums  |-> [ledger.sums EXCEPT
                     ![p] = [qty   |-> @.qty + q,
                             price |-> IF FindItem(items, p) = 0 THEN pr ELSE @.price]]]
  ELSE LedgerOff

\* Tallies are functions from the keys counted so far; a key not yet in the
\* domain counts 0.
NoTally == [k \in {} |-> 0]

Tally(t, k) == IF k \in DOMAIN t THEN t[k] ELSE 0

Count(t, k, inc) ==
  IF k \in DOMAIN t THEN [t EXCEPT ![k] = @ + inc] ELSE t @@ (k :> inc)

Credit(ap, p, d, m, inc) == Count(ap, <<p, d, m>>, inc)

Issue(is, p, m, inc) == Count(is, <<p, m>>, inc)

TotalIssued == SumOver(DOMAIN issued, issued)

\* The counter of column m in the row of (p, d); 0 when there is no row.
Counter(tbl, p, d, m) ==
  LET hit == {i \in Indices(tbl) : tbl[i].product_id = p /\ tbl[i].date = d}
  IN IF hit = {} THEN 0 ELSE tbl[CHOOSE i \in hit : TRUE][m]

RowCount(tbl, p, d) ==
  Cardinality({i \in Indices(tbl) : tbl[i].product_id = p /\ tbl[i].date = d})

\* ------------------------------------------------------------------ image upload

\* IMAGE_CONFIG
MAX_FILE_SIZE == 5242880
LARGE_SIZE == 1200
ALLOWED_TYPES == {"image/jpeg", "image/png", "image/webp"}

\* A file: its MIME type, its size in bytes, and the pixel size of the image.
File(type, size, w, h) == [type |-> type, size |-> size, width |-> w, height |-> h]

FileTypes == ALLOWED_TYPES \cup {"image/gif", "application/pdf"}
FileSizes == {1048576, MAX_FILE_SIZE, MAX_FILE_SIZE + 1, 6291456}
Dims == {1, 600, LARGE_SIZE, LARGE_SIZE + 1, 2400}

\* Every type and size with a 600 x 600 image, and a 1 MB JPEG of every pixel size.
Files ==
  {File(t, sz, 600, 600) : t \in FileTypes, sz \in FileSizes}
    \cup {File("image/jpeg", 1048576, w, h) : w \in Dims, h \in Dims}

\* debugUtils.validateFileUpload with its default options.
validateFileUpload(file) ==
  ~(file.size > 5 * 1024 * 1024) /\ file.type \in ALLOWED_TYPES

validateImageFileBelowLimit(file) ==
  file.type \in ALLOWED_TYPES /\ file.size < MAX_FILE_SIZE

validateImageFile(file) ==
  file.type \in ALLOWED_TYPES /\ ~(file.size > MAX_FILE_SIZE)

\* A computed dimension: the quotient num / den of whole numbers (the code
\* holds it as a double).
Ratio(num, den) == [num |-> num, den |-> den]

Whole(n) == Ratio(n, 1)

RECURSIVE GCD(_, _)
GCD(a, b) == IF b = 0 THEN a ELSE GCD(b, a % b)

\* The same quotient in lowest terms, and its product with a whole number.
Lowest(r) == LET g == GCD(r.num, r.den) IN Ratio(r.num \div g, r.den \div g)

Times(r, n) == Lowest(Ratio(Lowest(r).num * n, Lowest(r).den))

\* canvas.width = width: the canvas takes the whole part.
CanvasSize(r) == r.num \div r.den

resizeImageClampEach(w, h, maxWidth, maxHeight) ==
  [width  |-> Whole(IF w > maxWidth THEN maxWidth ELSE w),
   height |-> Whole(IF h > maxHeight THEN maxHeight ELSE h)]

\* The dimensions img.onload computes from the image's width and height.
resizeImage(w, h, maxWidth, maxHeight) ==
  IF w > h
  THEN IF w > maxWidth
       THEN [width |-> Whole(maxWidth), height |-> Ratio(h * maxWidth, w)]
       ELSE [width |-> Whole(w), height |-> Whole(h)]
  ELSE IF h > maxHeight
       THEN [width |-> Ratio(w * maxHeight, h), height |-> Whole(maxHeight)]
       ELSE [width |-> Whole(w), height |-> Whole(h)]

NoPath == <<>>

\* products/${productId}-${index}-${Date.now()}.jpg
FilePath(productId, index, t) == <<productId, index, t>>

NoUpload ==
  [file |-> File("-", 0, 0, 0), error |-> FALSE, path |-> NoPath,
   resizes |-> 0, uploads |-> 0, width |-> Whole(0), height |-> Whole(0)]

\* uploadProductImage(file, productId, index): the result it returns (error,
\* path), the bucket it leaves, and how often it resized and called
\* storage.upload.  The resize rejects when the image does not decode or the
\* canvas has no pixels (toBlob gives null); upload has upsert: false.
uploadProductImage(blobs, file, productId, index, t, oResize, oUpload) ==
  LET size     == resizeImage(file.width, file.height, LARGE_SIZE, LARGE_SIZE)
      path     == FilePath(productId, index, t)
      refused == [NoUpload EXCEPT !.file = file, !.error = TRUE]
      resized  == [refused EXCEPT !.resizes = 1, !.width = size.width,
                                    !.height = size.height]
  IN IF ~validateFileUpload(file) \/ ~validateImageFile(file)
     THEN [result |-> refused, bucket |-> blobs]
     ELSE IF oResize # "ok" \/ CanvasSize(size.width) = 0 \/ CanvasSize(size.height) = 0
     THEN [result |-> resized, bucket |-> blobs]
     ELSE IF oUpload # "ok" \/ path \in blobs
     THEN [result |-> [resized EXCEPT !.uploads = 1], bucket |-> blobs]
     ELSE [result |-> [resized EXCEPT !.uploads = 1, !.error = FALSE, !.path = path],
           bucket |-> blobs \cup {path}]

\* deleteProductImage(path): storage.remove([path]); true when it worked.
deleteProductImage(blobs, path, outcome) ==
  [ok |-> outcome = "ok", bucket |-> IF outcome = "ok" THEN blobs \ {path} ELSE blobs]

\* ------------------------------------------------------------------ product form

NoProduct == "-"

\* Ids the database gives to products created through the form.
NewProducts == {"N1", "N2"}

\* The images the uploader hands to the form: a 1 MB JPEG, a 6 MB PNG.
SubmitFiles ==
  {File("image/jpeg", 1048576, 600, 600), File("image/png", 6291456, 600, 600)}

\* The price typed into the form.
FormPrices == {pr \in Prices : \A q \in Prices : q <= pr}

ImageLists == UNION {[1..n -> SubmitFiles] : n \in 0..MaxImages}

MediaRow(productId, path, primary, order) ==
  [product_id |-> productId, path |-> path, is_primary |-> primary,
   display_order |-> order]

\* uploadProductImages: uploadProductImage for files[i], files[i + 1], ... in
\* turn, with index i - 1 (lists are numbered from 1 here, from 0 in the code).
RECURSIVE uploadProductImages(_, _, _, _, _, _)
uploadProductImages(blobs, files, productId, t, oUploads, i) ==
  IF i > Len(files) THEN [results |-> <<>>, bucket |-> blobs]
  ELSE LET u    == uploadProductImage(blobs, files[i], productId, i - 1, t,
                                      "ok", oUploads[i])
           rest == uploadProductImages(u.bucket, files, productId, t, oUploads, i + 1)
       IN [results |-> <<u.result>> \o rest.results, bucket |-> rest.bucket]

\* onSubmit's loop over uploadResults from position i: failed uploads are
\* skipped; an insert that returns an error deletes the blob and throws; an
\* insert that throws is rethrown by the inner catch.
RECURSIVE insertMediaRecords(_, _, _, _, _, _, _)
insertMediaRecords(media, blobs, results, productId, oInserts, oDelete, i) ==
  IF i > Len(results)
  THEN [media |-> media, bucket |-> blobs, error |-> FALSE, failedInsert |-> NoPath]
  ELSE IF results[i].error
  THEN insertMediaRecords(media, blobs, results, productId, oInserts, oDelete, i + 1)
  ELSE IF oInserts[i] = "ok"
  THEN insertMediaRecords(
         Append(media, MediaRow(productId, results[i].path, i - 1 = 0, i - 1)),
         blobs, results, productId, oInserts, oDelete, i + 1)
  ELSE [media |-> media,
        bucket |-> IF oInserts[i] = "error"
                   THEN deleteProductImage(blobs, results[i].path, oDelete).bucket
                   ELSE blobs,
        error |-> TRUE, failedInsert |-> results[i].path]

\* What a submission did: "refused" (no image for a new product), "create"
\* or "edit"; the product; whether an error was reported; the blobs it
\* uploaded; the blob of the image whose media insert failed.
Submission(op, productId, reported, uploaded, failedInsert) ==
  [op |-> op, product_id |-> productId, reported |-> reported,
   uploaded |-> uploaded, failedInsert |-> failedInsert]

\* onSubmit(data) with editingProduct (NoProduct for a new product) and the
\* uploader's images; newId is the id the insert would return.
onSubmit(prods, media, blobs, t, editing, newId, pr, files, o) ==
  LET creating  == editing = NoProduct
      productId == IF creating THEN newId ELSE editing
      kind      == IF creating THEN "create" ELSE "edit"
      written   == IF creating THEN prods @@ (newId :> pr)
                   ELSE [prods EXCEPT ![editing] = pr]
      up        == uploadProductImages(blobs, files, productId, t, o.uploads, 1)
      uploaded  == {up.results[i].path : i \in {j \in Indices(files) : ~up.results[j].error}}
      ins       == insertMediaRecords(media, up.bucket, up.results, productId,
                                      o.inserts, o.delete, 1)
  IN IF creating /\ files = <<>>
     THEN [products |-> prods, media |-> media, bucket |-> blobs,
           did |-> Submission("refused", NoProduct, TRUE, {}, NoPath)]
     ELSE IF o.product # "ok"
     THEN [products |-> prods, media |-> media, bucket |-> blobs,
           did |-> Submission(kind, editing, TRUE, {}, NoPath)]
     ELSE IF files = <<>>
     THEN [products |-> written, media |-> media, bucket |-> blobs,
           did |-> Submission(kind, productId, FALSE, {}, NoPath)]
     ELSE IF uploaded = {}
     THEN [products |-> written, media |-> media, bucket |-> up.bucket,
           did |-> Submission(kind, productId, TRUE, {}, NoPath)]
     ELSE [products |-> written, media |-> ins.media, bucket |-> ins.bucket,
           did |-> Submission(kind, productId, ins.error, uploaded, ins.failedInsert)]

NoSubmit == Submission("-", NoProduct, FALSE, {}, NoPath)

\* ------------------------------------------------------------------ image rendering

\* A URL: the site its text names ("pexels", "supabase", "other"), whether it
\* is absolute (new URL(text) throws when it is not), its path and its query
\* parameters.
Url(host, absolute, path, params) ==
  [host |-> host, absolute |-> absolute, path |-> path, params |-> params]

NoUrl == Url("-", FALSE, "-", {})

FALLBACK_PRODUCT_IMAGE ==
  Url("pexels", TRUE, "4465124", {"auto=compress", "cs=tinysrgb", "w=800"})

FALLBACK_THUMBNAIL ==
  Url("pexels", TRUE, "4465124", {"auto=compress", "cs=tinysrgb", "w=200"})

\* new URL(originalUrl) in getOptimizedImageUrl throws a TypeError.
getOptimizedImageUrlThrows(originalUrl) ==
  originalUrl # NoUrl /\ originalUrl.host \in {"pexels", "supabase"} /\ ~originalUrl.absolute

\* getOptimizedImageUrl(originalUrl, { width, quality, format: 'webp' }) with
\* width "" when undefined; quality is the component's default.
getOptimizedImageUrl(originalUrl, width) ==
  IF originalUrl = NoUrl THEN FALLBACK_PRODUCT_IMAGE
  ELSE IF originalUrl.host = "pexels"
  THEN [originalUrl EXCEPT !.params =
          {q \in @ : q \notin {"w=200", "w=800"} \/ width = ""}
            \cup (IF width # "" THEN {"w=" \o width} ELSE {})
            \cup {"auto=compress", "cs=tinysrgb"}]
  ELSE IF originalUrl.host = "supabase"
  THEN [originalUrl EXCEPT !.params =
          (IF width # "" THEN {"width=" \o width} ELSE {})
            \cup {"quality=85", "format=webp"}]
  ELSE originalUrl

\* The wait after failed attempt number `attempt`.
BackoffConstant(delay, attempt) == delay
Backoff(delay, attempt) == delay * attempt

NoLoad ==
  [owner |-> "-", url |-> NoUrl, maxRetries |-> 0, delay |-> 0, attempt |-> 0,
   tried |-> <<>>, waits |-> <<>>, phase |-> "idle", succeeded |-> FALSE,
   result |-> NoUrl]

\* loadImageWithRetry(url, maxRetries, delay) up to its first await: the loop
\* is not entered when maxRetries < 1 and the fallback is returned.
loadImageWithRetry(owner, url, maxRetries, delay) ==
  [NoLoad EXCEPT !.owner = owner, !.url = url, !.maxRetries = maxRetries,
                 !.delay = delay, !.attempt = 1,
                 !.phase = IF 1 <= maxRetries THEN "attempting" ELSE "done",
                 !.result = IF 1 <= maxRetries THEN NoUrl ELSE FALLBACK_PRODUCT_IMAGE]

\* img.onload (loaded) or img.onerror fires for the attempt in progress.
AttemptSettles(l, loaded) ==
  LET made == [l EXCEPT !.tried = Append(@, l.url)]
  IN IF loaded
     THEN [made EXCEPT !.phase = "done", !.succeeded = TRUE, !.result = l.url]
     ELSE IF l.attempt = l.maxRetries
     THEN [made EXCEPT !.phase = "done", !.result = FALLBACK_PRODUCT_IMAGE]
     ELSE [made EXCEPT !.phase = "waiting",
                       !.waits = Append(@, Backoff(l.delay, l.attempt))]

\* The component before its effect has run: useState's initial values.
NoImage ==
  [src |-> NoUrl, fallbackSrc |-> NoUrl, width |-> "", imageState |-> "loading",
   currentSrc |-> NoUrl, visited |-> <<>>, outcome |-> "-"]

\* The components rendered: OptimizedImage without fallbackSrc and width,
\* ProductThumbnail.
Variants ==
  {[fallbackSrc |-> NoUrl, width |-> ""],
   [fallbackSrc |-> FALLBACK_THUMBNAIL, width |-> "200"]}

Sources ==
  {Url("supabase", TRUE, "photo", {}), Url("supabase", FALSE, "photo", {}),
   Url("pexels", TRUE, "photo", {"w=800"}), Url("other", TRUE, "photo", {})}

DefaultRetries == 3
DefaultDelay == 1000

\* loadImage after `await loadImageWithRetry(optimizedSrc)` resolved.
Loaded(img, l) ==
  [img EXCEPT !.currentSrc = l.result, !.imageState = "loaded",
              !.visited = Append(@, "loaded"),
              !.outcome = IF l.succeeded THEN "loaded" ELSE "exhausted"]

\* loadImage's catch block.
LoadFailed(img) ==
  [img EXCEPT !.currentSrc = IF img.fallbackSrc # NoUrl THEN img.fallbackSrc
                             ELSE FALLBACK_PRODUCT_IMAGE,
              !.imageState = "error", !.visited = Append(@, "error"),
              !.outcome = "threw"]


\* ------------------------------------------------------------------ image uploader

\* An UploadedImage object: its id and its isMain flag.
UploadedImage(id, isMain) == [id |-> id, isMain |-> isMain]

\* What newImages[i] is when i is past the end of the array.
Undefined == UploadedImage(0, FALSE)

\* draggedIndex = null; list positions are 1-based here, index 0 of the code
\* is position 1.
NoIndex == 0

\* The component mounted with an empty list. `snapshot` is the images array
\* the handleFileSelect call in progress closed over: its objects are those
\* of the list until a handler replaces them by copies (aliased = FALSE).
NoUploader ==
  [allowMainSelection |-> FALSE, images |-> <<>>, draggedIndex |-> NoIndex,
   selecting |-> FALSE, files |-> 0, snapshot |-> <<>>, nextId |-> 1]

\* array.splice(i, 1) and array.splice(i, 0, x)
SpliceOut(arr, i) == SubSeq(arr, 1, i - 1) \o SubSeq(arr, i + 1, Len(arr))
SpliceIn(arr, i, x) == SubSeq(arr, 1, i - 1) \o <<x>> \o SubSeq(arr, i, Len(arr))

\* The snapshot after the handlers assigned isMain on the objects of `arr`
\* at the positions in `at`: an object both arrays hold shows the new flag.
Assigned(snapshot, arr, at) ==
  [k \in Indices(snapshot) |->
     IF snapshot[k].aliased /\ \E i \in at : arr[i].id = snapshot[k].id
     THEN [snapshot[k] EXCEPT !.isMain =
             (CHOOSE i \in at : arr[i].id = snapshot[k].id) = 1]
     ELSE snapshot[k]]

\* A render of the list dereferences every element (image.id, image.preview).
RenderThrows(up) == \E i \in Indices(up.images) : up.images[i] = Undefined

\* handleFileSelect(files) up to its first await: refused when the files do
\* not fit the remaining slots.
handleFileSelect(up, n) ==
  IF n > maxImages - Len(up.images) THEN up
  ELSE [up EXCEPT !.selecting = TRUE, !.files = n,
                  !.snapshot = [i \in Indices(up.images) |->
                                  [id |-> up.images[i].id,
                                   isMain |-> up.images[i].isMain,
                                   aliased |-> TRUE]]]

\* The rest of handleFileSelect, k of its files having passed validation and
\* resizing: onImagesChange([...images, ...newImages]) when k > 0.
fileSelectSettles(up, k) ==
  LET images    == [i \in Indices(up.snapshot) |->
                      UploadedImage(up.snapshot[i].id, up.snapshot[i].isMain)]
      newImages == [j \in 1..k |->
                      UploadedImage(up.nextId + j - 1, Len(images) = 0 /\ j = 1)]
  IN [up EXCEPT !.selecting = FALSE, !.files = 0, !.snapshot = <<>>,
                !.nextId = @ + k,
                !.images = IF k > 0 THEN images \o newImages ELSE @]

\* removeImage(index)
removeImage(up, index) ==
  LET newImages == SpliceOut(up.images, index)
      promote   == Len(newImages) > 0
                   /\ ~\E i \in Indices(newImages) : newImages[i].isMain
  IN IF promote
     THEN [up EXCEPT !.images = [newImages EXCEPT ![1].isMain = TRUE],
                     !.snapshot = Assigned(@, newImages, {1})]
     ELSE [up EXCEPT !.images = newImages]

\* setMainImage(index): the list becomes copies of its objects.
setMainImage(up, index) ==
  IF ~up.allowMainSelection THEN up
  ELSE [up EXCEPT !.images = [i \in Indices(@) |-> UploadedImage(@[i].id, i = index)],
                  !.snapshot = [k \in Indices(@) |-> [@[k] EXCEPT !.aliased = FALSE]]]

\* handleImageDrop(e, dropIndex) with allowReorder; a draggedIndex past the
\* end of the list moves `undefined`, and assigning isMain on it throws.
handleImageDrop(up, dropIndex) ==
  LET dragged   == up.draggedIndex
      stale     == dragged > Len(up.images)
      moved     == IF stale THEN Undefined ELSE up.images[dragged]
      newImages == SpliceIn(IF stale THEN up.images ELSE SpliceOut(up.images, dragged),
                            dropIndex, moved)
      first     == dropIndex = 1 \/ dragged = 1
  IN IF dragged = NoIndex \/ dragged = dropIndex
     THEN [up EXCEPT !.draggedIndex = NoIndex]
     ELSE IF first /\ newImages[1] = Undefined THEN up
     ELSE IF first
     THEN [up EXCEPT !.draggedIndex = NoIndex,
                     !.images = [i \in Indices(newImages) |->
                                   UploadedImage(newImages[i].id, i = 1)],
                     !.snapshot = Assigned(@, newImages, Indices(newImages))]
     ELSE [up EXCEPT !.draggedIndex = NoIndex, !.images = newImages]

\* ------------------------------------------------------------------ actions

AllOk == [rpc |-> "ok", sel |-> "ok", ins |-> "ok", wr |-> "ok"]

\* An outcome is drawn for each call a handler makes; the calls it does not
\* make stay "ok".

\* The try block shared by removeItem, updateQuantity and clearCart: the cart
\* lookup, then the write when a cart row was found.
WriteOutcomes ==
  IF user = NoUser THEN {AllOk}
  ELSE UNION {
         {[AllOk EXCEPT !.sel = s, !.wr = w] :
            w \in IF SelectCart(shopping_carts, user, s) = NoCart
                  THEN {"ok"} ELSE Outcomes} :
         s \in Outcomes}

\* addItem for a product with no line yet: the rpc, the cart lookup, the cart
\* insert when no cart was found, the item insert when a cart id is at hand.
SyncOutcomes ==
  IF user = NoUser THEN {AllOk}
  ELSE UNION {
         IF s = "throw" THEN {[AllOk EXCEPT !.sel = s]}
         ELSE IF SelectCart(shopping_carts, user, s) # NoCart
         THEN {[AllOk EXCEPT !.sel = s, !.wr = w] : w \in Outcomes}
         ELSE UNION {
                IF i = "ok" /\ CartOf(shopping_carts, user) = NoCart
                THEN {[AllOk EXCEPT !.sel = s, !.ins = i, !.wr = w] : w \in Outcomes}
                ELSE {[AllOk EXCEPT !.sel = s, !.ins = i]} :
                i \in Outcomes} :
         s \in Outcomes}

AddOutcomes == {[o EXCEPT !.rpc = r] : o \in SyncOutcomes, r \in Outcomes}

LoadOutcomes ==
  IF user = NoUser THEN {AllOk} ELSE {[AllOk EXCEPT !.sel = s] : s \in Outcomes}

Commit(e, ok, op) ==
  /\ items' = e.items
  /\ shopping_carts' = e.carts
  /\ cart_items' = e.rows
  /\ product_analytics' = e.analytics
  /\ rejected' = e.rejected
  /\ rpcCalls' = e.rpcCalls
  /\ expected' = ok.items
  /\ lastOp' = [op EXCEPT !.failed = e.failed]
  /\ UNCHANGED <<uiVars, authVars, products, today, pending>>

AddNew(p, q, o) ==
  /\ FindItem(items, p) = 0
  /\ Len(items) < MaxLines
  /\ user # NoUser => Len(cart_items) < MaxRows
  /\ o.rpc = "ok" => Counter(product_analytics, p, today, "cart_adds") < MaxCount
  /\ Commit(addItem(items, shopping_carts, cart_items, product_analytics,
                    user, today, p, products[p], q, o),
            addItem(items, shopping_carts, cart_items, product_analytics,
                    user, today, p, products[p], q, AllOk),
            Op("addItem", p, "-", q, FALSE, 0))
  /\ ledger' = LedgerAdd(p, products[p], q)
  /\ applied' = IF o.rpc = "ok" THEN Credit(applied, p, today, "cart_adds", 1)
                ELSE applied
  /\ issued' = IF o.rpc = "ok" THEN Issue(issued, p, "cart_adds", 1) ELSE issued

AddExisting(p, q, o) ==
  /\ FindItem(items, p) # 0
  /\ items[FindItem(items, p)].quantity + q <= MaxQty
  /\ Commit(addItem(items, shopping_carts, cart_items, product_analytics,
                    user, today, p, products[p], q, o),
            addItem(items, shopping_carts, cart_items, product_analytics,
                    user, today, p, products[p], q, AllOk),
            Op("addItem", p, "-", q, FALSE, LineCount(items, p)))
  /\ ledger' = LedgerAdd(p, products[p], q)
  /\ UNCHANGED <<applied, issued>>

\* An admin edits a product's price (the products table row).
ChangePrice(p, pr) ==
  /\ products[p] # pr
  /\ products' = [products EXCEPT ![p] = pr]
  /\ rejected' = FALSE
  /\ rpcCalls' = 0
  /\ lastOp' = Op("changePrice", p, "-", 0, FALSE, 0)
  /\ UNCHANGED <<uiVars, authVars, cartVars, analyticsVars>>

RemoveItem(p, o) ==
  /\ Commit(removeItem(items, shopping_carts, cart_items, product_analytics,
                       user, p, o),
            removeItem(items, shopping_carts, cart_items, product_analytics,
                       user, p, AllOk),
            Op("removeItem", p, "-", 0, FALSE, LineCount(items, p)))
  /\ ledger' = LedgerOff
  /\ UNCHANGED <<applied, issued>>

UpdateQuantity(p, q, o) ==
  /\ q <= MaxQty
  /\ Commit(updateQuantity(items, shopping_carts, cart_items, product_analytics,
                           user, p, q, o),
            updateQuantity(items, shopping_carts, cart_items, product_analytics,
                           user, p, q, AllOk),
            Op("updateQuantity", p, "-", q, FALSE, LineCount(items, p)))
  /\ ledger' = LedgerOff
  /\ UNCHANGED <<applied, issued>>

ClearCart(o) ==
  /\ Commit(clearCart(items, shopping_carts, cart_items, product_analytics, user, o),
            clearCart(items, shopping_carts, cart_items, product_analytics, user, AllOk),
            Op("clearCart", "-", "-", 0, FALSE, Len(items)))
  /\ ledger' = LedgerOff
  /\ UNCHANGED <<applied, issued>>

LoadCart(o) ==
  /\ Commit(loadCart(items, shopping_carts, cart_items, product_analytics, user, o),
            loadCart(items, shopping_carts, cart_items, product_analytics, user, AllOk),
            Op("loadCart", "-", "-", 0, FALSE, Len(items)))
  /\ ledger' = LedgerOff
  /\ UNCHANGED <<applied, issued>>

\* signIn: signInWithPassword, then set({ user }) and checkAdminStatus().
SignIn(u, oAuth, oProfile) ==
  /\ user' = IF oAuth = "ok" THEN u ELSE user
  /\ isAdmin' = IF oAuth = "ok" THEN checkAdminStatus(user_profiles, u, oProfile)
                ELSE isAdmin
  /\ rejected' = (oAuth = "throw")
  /\ rpcCalls' = 0
  /\ lastOp' = Op("signIn", "-", "-", 0,
                  Failed(oAuth) \/ (oAuth = "ok" /\ Failed(oProfile)), 0)
  /\ UNCHANGED <<uiVars, products, user_profiles, cartVars, analyticsVars>>

\* signOut: await supabase.auth.signOut(); set({ user: null, isAdmin: false }).
SignOut(oAuth) ==
  /\ user' = IF oAuth = "throw" THEN user ELSE NoUser
  /\ isAdmin' = IF oAuth = "throw" THEN isAdmin ELSE FALSE
  /\ rejected' = (oAuth = "throw")
  /\ rpcCalls' = 0
  /\ lastOp' = Op("signOut", "-", "-", 0, Failed(oAuth), 0)
  /\ UNCHANGED <<uiVars, products, user_profiles, cartVars, analyticsVars>>

\* A caller (a browser tab, any client of the public function) sends
\* update_product_analytics(p, m, inc); the call is in flight.
Invoke(c, p, m, inc) ==
  /\ pending[c] = NoCall
  /\ TotalIssued + inc <= MaxCalls
  /\ pending' = [pending EXCEPT ![c] = [product_id |-> p, metric |-> m, inc |-> inc,
                                        overlap |-> InFlight(c, p, m) # {}]]
  /\ issued' = Issue(issued, p, m, inc)
  /\ rejected' = FALSE
  /\ rpcCalls' = 0
  /\ lastOp' = Op("invoke", "-", "-", 0, FALSE, 0)
  /\ UNCHANGED <<uiVars, authVars, products, cartVars, product_analytics, today, applied>>

\* The database runs the function body for caller c's call: one statement,
\* whose INSERT ... ON CONFLICT DO UPDATE is atomic.
Execute(c) ==
  LET call == pending[c]
      others == InFlight(c, call.product_id, call.metric)
  IN /\ call # NoCall
     /\ product_analytics' = update_product_analytics(product_analytics,
                                call.product_id, call.metric, call.inc, today)
     /\ pending' = [pending EXCEPT ![c] = NoCall]
     /\ applied' = Credit(applied, call.product_id, today, call.metric, call.inc)
     /\ rejected' = FALSE
     /\ rpcCalls' = 0
     /\ lastOp' = Op("execute", call.product_id, call.metric, call.inc, FALSE,
                     Cardinality(others) + (IF call.overlap THEN 1 ELSE 0))
     /\ UNCHANGED <<uiVars, authVars, products, cartVars, today, issued>>

\* Midnight on the database server: CURRENT_DATE moves on.
NewDay ==
  /\ today + 1 \in Days
  /\ today' = today + 1
  /\ rejected' = FALSE
  /\ rpcCalls' = 0
  /\ lastOp' = Op("newDay", "-", "-", 0, FALSE, 0)
  /\ UNCHANGED <<uiVars, authVars, products, cartVars, product_analytics, pending,
                 applied, issued>>

\* trackProductInteraction(productId, metric) called from a page.
Track(p, m, outcome) ==
  LET t == trackProductInteraction(product_analytics, today, p, m, outcome)
  IN /\ outcome = "ok" => TotalIssued + 1 <= MaxCalls
     /\ product_analytics' = t.analytics
     /\ applied' = IF outcome = "ok" THEN Credit(applied, p, today, m, 1) ELSE applied
     /\ issued' = IF outcome = "ok" THEN Issue(issued, p, m, 1) ELSE issued
     /\ rejected' = t.rejected
     /\ rpcCalls' = t.calls
     /\ lastOp' = Op("track", p, m, 1, Failed(outcome), 0)
     /\ UNCHANGED <<uiVars, authVars, products, cartVars, today, pending>>

InitWith(profiles) ==
  /\ user = NoUser
  /\ isAdmin = FALSE
  /\ items = <<>>
  /\ products = [p \in Products |-> IF p = "A" THEN 1 ELSE 2]
  /\ user_profiles = profiles
  /\ shopping_carts = <<>>
  /\ cart_items = <<>>
  /\ product_analytics = <<>>
  /\ today = 1
  /\ pending = [c \in Callers |-> NoCall]
  /\ lastOp = Op("init", "-", "-", 0, FALSE, 0)
  /\ rejected = FALSE
  /\ rpcCalls = 0
  /\ expected = <<>>
  /\ ledger = LedgerInit
  /\ applied = NoTally
  /\ issued = NoTally
  /\ isLoading = TRUE
  /\ initRun = "idle"
  /\ listeners = 0
  /\ returned = "-"
  /\ bucket = {}
  /\ product_media = <<>>
  /\ now = 0
  /\ lastUpload = NoUpload
  /\ lastSubmit = NoSubmit
  /\ image = NoImage
  /\ load = NoLoad
  /\ imageCache = <<>>
  /\ orders = <<>>
  /\ order_number_seq = 0
  /\ orderLog = <<>>
  /\ running = [c \in Callers |-> NoRun]
  /\ lookups = [u \in Users |-> 0]
  /\ uploader = NoUploader

\* Every account has a profile row without the admin flag.
Init == InitWith([u \in Users |-> "member"])

\* The storefront: adding positive quantities, the cart modal's buttons
\* (quantity - 1 reaches 0), loading the cart, the session; every backend
\* call may fail.
Next ==
  \/ \E p \in Products, q \in AddQuantities, o \in AddOutcomes : AddNew(p, q, o)
  \/ \E p \in Products, q \in AddQuantities, o \in WriteOutcomes : AddExisting(p, q, o)
  \/ \E p \in Products, o \in WriteOutcomes : RemoveItem(p, o)
  \/ \E p \in Products, q \in QtyInputs, o \in WriteOutcomes : UpdateQuantity(p, q, o)
  \/ \E o \in WriteOutcomes : ClearCart(o)
  \/ \E o \in LoadOutcomes : LoadCart(o)
  \/ \E u \in Users, oAuth \in Outcomes :
       \E oProfile \in IF oAuth = "ok" THEN Outcomes ELSE {"ok"} :
         SignIn(u, oAuth, oProfile)
  \/ \E oAuth \in Outcomes : SignOut(oAuth)

Spec == Init /\ [][Next]_vars

\* The cart store's own interface: addItem and updateQuantity with every
\* quantity they accept, while product prices change; the backend answers.
StoreNext ==
  \/ \E p \in Products, q \in QtyInputs : AddNew(p, q, AllOk)
  \/ \E p \in Products, q \in QtyInputs : AddExisting(p, q, AllOk)
  \/ \E p \in Products : RemoveItem(p, AllOk)
  \/ \E p \in Products, q \in QtyInputs : UpdateQuantity(p, q, AllOk)
  \/ \E p \in Products, pr \in Prices : ChangePrice(p, pr)
  \/ \E u \in Users : SignIn(u, "ok", "ok")

StoreSpec == Init /\ [][StoreNext]_vars

\* The analytics counter: pages tracking interactions and clients calling the
\* public stored procedure, concurrently, across midnight.
AnalyticsNext ==
  \/ \E c \in Callers, p \in Products, m \in Metrics, inc \in Increments :
       Invoke(c, p, m, inc)
  \/ \E c \in Callers : Execute(c)
  \/ NewDay
  \/ \E p \in Products, m \in Metrics, outcome \in Outcomes : Track(p, m, outcome)

AnalyticsSpec == Init /\ [][AnalyticsNext]_vars

\* ------------------------------------------------------------------ auth store

\* What getUser() and a session-change notification carry: a user or null.
SessionUsers == Users \cup {NoUser}

ProfileStates == {"none", "member", "admin"}

\* catch (error) { set({ isLoading: false }) }, as set({ user, isLoading: false }).
LoadingKeptOnThrow(outcome) == outcome = "throw"

LoadingAfterFetch(outcome) == FALSE

\* if (user) { await get().checkAdminStatus(); }
ChecksAdmin(u) == u # NoUser

\* signUp's return { error }: only the account creation's error, the profile
\* insert's failure is caught or never read.
signUpReturnsProfileError(oAuth, profileFailed) ==
  IF oAuth = "error" \/ profileFailed THEN "error" ELSE "ok"

signUpReturns(oAuth, profileFailed) == IF oAuth = "error" THEN "error" ELSE "ok"

\* initialize() is called and awaits supabase.auth.getUser().
InitializeStart ==
  /\ initRun = "idle"
  /\ listeners < MaxInits
  /\ initRun' = "fetching"
  /\ rejected' = FALSE
  /\ rpcCalls' = 0
  /\ lastOp' = Op("initializeStart", "-", "-", 0, FALSE, 0)
  /\ UNCHANGED <<authVars, storefrontVars, isLoading, listeners, returned>>

\* getUser() settles with session user u: the rest of initialize(), to the
\* onAuthStateChange subscription.  `count` is 1 when checkAdminStatus ran.
InitializeSettle(u, oFetch, oProfile) ==
  LET threw   == oFetch = "throw"
      fetched == IF oFetch = "ok" THEN u ELSE NoUser
      newUser == IF threw THEN user ELSE fetched
      checks  == ~threw /\ ChecksAdmin(newUser)
  IN /\ initRun = "fetching"
     /\ user' = newUser
     /\ isLoading' = LoadingAfterFetch(oFetch)
     /\ isAdmin' = IF checks THEN checkAdminStatus(user_profiles, newUser, oProfile)
                   ELSE isAdmin
     /\ listeners' = listeners + 1
     /\ initRun' = "idle"
     /\ rejected' = FALSE
     /\ rpcCalls' = 0
     /\ lastOp' = Op("initialize", newUser, "-", 0,
                     Failed(oFetch) \/ (checks /\ Failed(oProfile)),
                     IF checks THEN 1 ELSE 0)
     /\ UNCHANGED <<user_profiles, storefrontVars, returned>>

\* checkAdminStatus() called on its own.  `count` is 1 when the profile lookup
\* was made (a user is signed in).
CheckAdminStatus(outcome) ==
  /\ isAdmin' = IF user = NoUser THEN isAdmin
                ELSE checkAdminStatus(user_profiles, user, outcome)
  /\ rejected' = FALSE
  /\ rpcCalls' = 0
  /\ lastOp' = Op("checkAdminStatus", user, "-", 0,
                  user # NoUser /\ Failed(outcome),
                  IF user # NoUser THEN 1 ELSE 0)
  /\ UNCHANGED <<user, user_profiles, storefrontVars, sessionVars>>

\* The onAuthStateChange callback, once subscribed, for a session of user u.
SessionChange(u, oProfile) ==
  /\ listeners > 0
  /\ user' = u
  /\ isAdmin' = IF u # NoUser THEN checkAdminStatus(user_profiles, u, oProfile)
                ELSE FALSE
  /\ rejected' = FALSE
  /\ rpcCalls' = 0
  /\ lastOp' = Op("sessionChange", u, "-", 0, u # NoUser /\ Failed(oProfile),
                  IF u # NoUser THEN 1 ELSE 0)
  /\ UNCHANGED <<user_profiles, storefrontVars, sessionVars>>

\* signUp for account u: auth.signUp, then the user_profiles insert (which the
\* primary key refuses when u has a row).  `count` is 1 when the account was
\* created.
SignUp(u, oAuth, oProfile) ==
  LET created       == oAuth = "ok"
      profileFailed == created /\ (Failed(oProfile) \/ user_profiles[u] # "none")
  IN /\ user' = IF created THEN u ELSE user
     /\ user_profiles' = IF created /\ ~profileFailed
                         THEN [user_profiles EXCEPT ![u] = "member"]
                         ELSE user_profiles
     /\ returned' = IF oAuth = "throw" THEN "-"
                    ELSE signUpReturns(oAuth, profileFailed)
     /\ rejected' = (oAuth = "throw")
     /\ rpcCalls' = 0
     /\ lastOp' = Op("signUp", u, "-", 0, Failed(oAuth) \/ profileFailed,
                     IF created THEN 1 ELSE 0)
     /\ UNCHANGED <<isAdmin, storefrontVars, isLoading, initRun, listeners>>

\* Any profile table: no row, a member's row or an admin's row per account.
AuthInit == \E profiles \in [Users -> ProfileStates] : InitWith(profiles)

\* The auth store: the App shell's initialize(), the session listener, and
\* the sign-up, sign-in and sign-out forms; every backend call may fail.
AuthNext ==
  \/ InitializeStart
  \/ \E u \in SessionUsers, oFetch \in Outcomes :
       \E oProfile \in IF oFetch = "ok" /\ u # NoUser THEN Outcomes ELSE {"ok"} :
         InitializeSettle(IF oFetch = "ok" THEN u ELSE NoUser, oFetch, oProfile)
  \/ \E outcome \in IF user = NoUser THEN {"ok"} ELSE Outcomes :
       CheckAdminStatus(outcome)
  \/ \E u \in SessionUsers :
       \E oProfile \in IF u = NoUser THEN {"ok"} ELSE Outcomes :
         SessionChange(u, oProfile)
  \/ \E u \in Users, oAuth \in Outcomes :
       \E oProfile \in IF oAuth = "ok" THEN Outcomes ELSE {"ok"} :
         SignUp(u, oAuth, oProfile)
  \/ \E u \in Users, oAuth \in Outcomes :
       \E oProfile \in IF oAuth = "ok" THEN Outcomes ELSE {"ok"} :
         SignIn(u, oAuth, oProfile)
  \/ \E oAuth \in Outcomes : SignOut(oAuth)

\* A getUser() call that was made settles: the promise resolves or rejects.
AuthSpec ==
  /\ AuthInit
  /\ [][AuthNext]_vars
  /\ WF_vars(\E u \in SessionUsers, oFetch, oProfile \in Outcomes :
               InitializeSettle(u, oFetch, oProfile))

\* ------------------------------------------------------------------ uploads

\* One uploadProductImage(file, productId, 0) call.
UploadImage(p, file, oResize, oUpload) ==
  LET u == uploadProductImage(bucket, file, p, 0, now, oResize, oUpload)
  IN /\ now < MaxClock
     /\ now' = now + 1
     /\ bucket' = u.bucket
     /\ lastUpload' = u.result
     /\ rejected' = FALSE
     /\ rpcCalls' = 0
     /\ lastOp' = Op("uploadProductImage", p, "-", 0, u.result.error, 0)
     /\ UNCHANGED <<authVars, sessionVars, products, cartVars, analyticsVars,
                    product_media, lastSubmit, renderVars, pageVars>>

\* One deleteProductImage(path) call for a blob of the bucket.
DeleteImage(path, outcome) ==
  LET d == deleteProductImage(bucket, path, outcome)
  IN /\ path \in bucket
     /\ bucket' = d.bucket
     /\ rejected' = FALSE
     /\ rpcCalls' = 0
     /\ lastOp' = Op("deleteProductImage", path[1], "-", 0, ~d.ok, 0)
     /\ UNCHANGED <<authVars, sessionVars, products, cartVars, analyticsVars,
                    product_media, now, lastUpload, lastSubmit, renderVars, pageVars>>

\* The outcomes of the calls uploadProductImage makes for a file: none for a
\* file that fails validation, no upload when the resize is rejected.
ResizeOutcomes(file) ==
  IF validateFileUpload(file) /\ validateImageFile(file) THEN {"ok", "throw"} ELSE {"ok"}

UploadOutcomes(file, oResize) ==
  IF validateFileUpload(file) /\ validateImageFile(file) /\ oResize = "ok"
  THEN Outcomes ELSE {"ok"}

UploadNext ==
  \/ \E p \in Products, file \in Files :
       \E oResize \in ResizeOutcomes(file) :
         \E oUpload \in UploadOutcomes(file, oResize) :
           UploadImage(p, file, oResize, oUpload)
  \/ \E path \in bucket, outcome \in Outcomes : DeleteImage(path, outcome)

UploadSpec == Init /\ [][UploadNext]_vars

\* ------------------------------------------------------------------ submissions

\* The outcomes of the calls a submission makes: the product write; when it
\* succeeds a storage upload per file that passes validation; a media insert
\* per uploaded image up to the first that fails; the storage delete after
\* an insert's error. A call that is not made is listed as "ok".
SubmitOutcomes(files) ==
  LET n        == Len(files)
      allOk    == [i \in 1..n |-> "ok"]
      valid(i) == validateFileUpload(files[i]) /\ validateImageFile(files[i])
      uploads  == {u \in [1..n -> Outcomes] : \A i \in 1..n : ~valid(i) => u[i] = "ok"}
      stored(u) == {i \in 1..n : valid(i) /\ u[i] = "ok"}
      outcome(w, u, m, d) == [product |-> w, uploads |-> u, inserts |-> m, delete |-> d]
  IN {outcome(w, allOk, allOk, "ok") : w \in {"error", "throw"}}
       \cup {outcome("ok", u, allOk, "ok") : u \in uploads}
       \cup UNION {{outcome("ok", u, [allOk EXCEPT ![k] = "throw"], "ok") : k \in stored(u)}
                     \cup {outcome("ok", u, [allOk EXCEPT ![k] = "error"], d) :
                             k \in stored(u), d \in Outcomes} : u \in uploads}

\* The admin submits the product form: a new product or an edit of product
\* `editing`, with the price typed and the images picked.
Submit(editing, pr, files, o) ==
  LET unused == NewProducts \ DOMAIN products
      newId  == IF unused = {} THEN NoProduct ELSE CHOOSE id \in unused : TRUE
      r      == onSubmit(products, product_media, bucket, now, editing, newId,
                         pr, files, o)
  IN /\ editing = NoProduct => unused # {}
     /\ editing # NoProduct => editing \in DOMAIN products
     /\ files # <<>> => now < MaxClock
     /\ products' = r.products
     /\ product_media' = r.media
     /\ bucket' = r.bucket
     /\ now' = IF files # <<>> THEN now + 1 ELSE now
     /\ lastSubmit' = r.did
     /\ rejected' = FALSE
     /\ rpcCalls' = 0
     /\ lastOp' = Op("onSubmit", r.did.product_id, "-", 0, r.did.reported, Len(files))
     /\ UNCHANGED <<authVars, sessionVars, cartVars, analyticsVars, lastUpload, renderVars, pageVars>>

SubmitNext ==
  \E editing \in {NoProduct} \cup Products \cup NewProducts, pr \in FormPrices,
     files \in ImageLists :
    \E o \in SubmitOutcomes(files) : Submit(editing, pr, files, o)

SubmitSpec == Init /\ [][SubmitNext]_vars

\* ------------------------------------------------------------------ rendering

\* The component comes into view with props src, fallbackSrc and width, and
\* its effect runs loadImage up to the await.
Render(src, variant) ==
  LET mounted == [NoImage EXCEPT !.src = src, !.fallbackSrc = variant.fallbackSrc,
                                 !.width = variant.width, !.visited = <<"loading">>]
      started == loadImageWithRetry("component",
                   getOptimizedImageUrl(src, variant.width), DefaultRetries, DefaultDelay)
  IN /\ load.phase \in {"idle", "done"}
     /\ IF getOptimizedImageUrlThrows(src)
        THEN image' = LoadFailed(mounted) /\ load' = NoLoad
        ELSE /\ load' = started
             /\ image' = IF started.phase = "done" THEN Loaded(mounted, started)
                         ELSE mounted
     /\ UNCHANGED <<authVars, sessionVars, products, cartVars, analyticsVars, mediaVars, pageVars,
                    lastOp, rejected, rpcCalls>>

\* Another module calls loadImageWithRetry(url, maxRetries, delay).
LoadImage(url, maxRetries, delay) ==
  /\ load.phase \in {"idle", "done"}
  /\ load' = loadImageWithRetry("caller", url, maxRetries, delay)
  /\ UNCHANGED <<authVars, sessionVars, products, cartVars, analyticsVars, mediaVars, pageVars,
                 lastOp, rejected, rpcCalls, image>>

\* The browser settles the attempt in progress; when that ends the call the
\* awaiting loadImage continues.
AttemptLoad(loaded) ==
  /\ load.phase = "attempting"
  /\ load' = AttemptSettles(load, loaded)
  /\ image' = IF load.owner = "component" /\ load'.phase = "done"
              THEN Loaded(image, load') ELSE image
  /\ UNCHANGED <<authVars, sessionVars, products, cartVars, analyticsVars, mediaVars, pageVars,
                 lastOp, rejected, rpcCalls>>

\* setTimeout(resolve, delay * attempt) fires and the loop goes on.
RetryTimer ==
  /\ load.phase = "waiting"
  /\ load' = [load EXCEPT !.phase = "attempting", !.attempt = @ + 1]
  /\ UNCHANGED <<authVars, sessionVars, products, cartVars, analyticsVars, mediaVars, pageVars,
                 lastOp, rejected, rpcCalls, image>>

RenderNext ==
  \/ \E src \in Sources, variant \in Variants : Render(src, variant)
  \/ \E url \in Sources, maxRetries \in 0..MaxRetries,
        delay \in {DefaultDelay \div 2, DefaultDelay} :
       LoadImage(url, maxRetries, delay)
  \/ \E loaded \in BOOLEAN : AttemptLoad(loaded)
  \/ RetryTimer

\* The browser settles every image request and fires every timer.
RenderSpec ==
  /\ Init
  /\ [][RenderNext]_vars
  /\ WF_vars(\E loaded \in BOOLEAN : AttemptLoad(loaded))
  /\ WF_vars(RetryTimer)


\* ------------------------------------------------------------------ image cache

CACHE_LIMIT == 100

CachedKeys(cache) == {cache[i].key : i \in Indices(cache)}

\* Map.set(key, value): a key already present keeps its place.
MapSet(cache, key, value) ==
  IF key \in CachedKeys(cache)
  THEN [i \in Indices(cache) |->
          IF cache[i].key = key THEN [key |-> key, value |-> value] ELSE cache[i]]
  ELSE Append(cache, [key |-> key, value |-> value])

\* imageCache.set(key, value): the first key is deleted when the map holds
\* more than CACHE_LIMIT entries, then the entry is set.
imageCacheSet(cache, key, value) ==
  MapSet(IF Len(cache) > CACHE_LIMIT THEN Tail(cache) ELSE cache, key, value)

\* The keys a caller passes: a URL never cached (numbered after the newest
\* entry), the oldest cached URL, the newest cached URL.
CacheKeys(cache) ==
  {IF cache = <<>> THEN 1 ELSE cache[Len(cache)].key + 1}
    \cup {cache[i].key : i \in {1, Len(cache)} \cap Indices(cache)}

CacheSet(key, value) ==
  /\ key <= MaxKeys
  /\ imageCache' = imageCacheSet(imageCache, key, value)
  /\ lastOp' = Op("imageCache.set", "-", "-", key, FALSE, Len(imageCache))
  /\ UNCHANGED <<cacheFrame, rejected, rpcCalls>>

CacheGet(key) ==
  /\ lastOp' = Op("imageCache.get", "-", "-", key, FALSE,
                  IF key \in CachedKeys(imageCache) THEN 1 ELSE 0)
  /\ UNCHANGED <<siteVars, pageVars, rejected, rpcCalls>>

CacheClear ==
  /\ imageCache' = <<>>
  /\ lastOp' = Op("imageCache.clear", "-", "-", 0, FALSE, Len(imageCache))
  /\ UNCHANGED <<cacheFrame, rejected, rpcCalls>>

CacheNext ==
  \/ \E key \in CacheKeys(imageCache), value \in {"blob:1"} : CacheSet(key, value)
  \/ \E key \in CacheKeys(imageCache) : CacheGet(key)
  \/ CacheClear

CacheSpec == Init /\ [][CacheNext]_vars


\* ------------------------------------------------------------------ orders

Null == "NULL"

\* to_char(now(), 'YYYYMMDD') on the server's days.
DateText(day) == <<"20250630", "20250701">>[day]

\* n::text as its decimal digits, and digits as text.
RECURSIVE Digits(_)
Digits(n) == IF n < 10 THEN <<n>> ELSE Append(Digits(n \div 10), n % 10)

RECURSIVE Text(_)
Text(digits) ==
  IF digits = <<>> THEN ""
  ELSE <<"0", "1", "2", "3", "4", "5", "6", "7", "8", "9">>[Head(digits) + 1]
         \o Text(Tail(digits))

\* lpad(string, length, fill): fills on the left up to length, and truncates
\* on the right a string longer than length.
lpad(string, length, fill) ==
  [i \in 1..length |->
     IF i <= length - Len(string) THEN fill
     ELSE string[i - (IF Len(string) > length THEN 0 ELSE length - Len(string))]]

\* generate_order_number() when nextval returns n.
generate_order_number(day, n) ==
  "ORD-" \o DateText(day) \o "-" \o Text(lpad(Digits(n), 6, 0))

\* set_order_number(): NEW.order_number after the trigger, [number, seq].
set_order_numberAlways(number, seq, day) ==
  [number |-> generate_order_number(day, seq + 1), seq |-> seq + 1]
set_order_number(number, seq, day) ==
  IF number = Null
  THEN [number |-> generate_order_number(day, seq + 1), seq |-> seq + 1]
  ELSE [number |-> number, seq |-> seq]

OrderNumbers(tbl) == {tbl[i].order_number : i \in Indices(tbl)}

\* INSERT INTO orders VALUES (row): the BEFORE INSERT trigger, then the
\* UNIQUE constraint on order_number.
InsertOrderRow(tbl, seq, day, row) ==
  LET new == set_order_number(row.order_number, seq, day)
      collides == new.number \in OrderNumbers(tbl)
  IN [orders |-> IF collides THEN tbl
                 ELSE Append(tbl, [row EXCEPT !.order_number = new.number]),
      seq |-> new.seq, number |-> new.number, collides |-> collides]

\* The rows clients send: the totals of the checkout, or a total that is
\* not the sum of its parts; no order number, or one of their own.
OrderRows ==
  [order_number : {Null, "ORD-20250630-000002", "PO-7"},
   subtotal : {100}, tax_amount : {8}, shipping_amount : {5},
   discount_amount : {0}, total_amount : {113, 1}]

\* A client inserts an order.
InsertOrder(row) ==
  LET r == InsertOrderRow(orders, order_number_seq, today, row)
  IN /\ Len(orderLog) < MaxOrders
     /\ orders' = r.orders
     /\ order_number_seq' = r.seq
     /\ orderLog' = Append(orderLog, [sent |-> row, number |-> r.number,
                                      collides |-> r.collides])
     /\ lastOp' = Op("insertOrder", row.order_number, r.number, row.total_amount,
                     r.collides, order_number_seq)
     /\ UNCHANGED <<orderFrame, rejected, rpcCalls>>

\* Inserts that a constraint rejects after the trigger has run (a row
\* without total_amount) leave no row and keep the sequence values they
\* drew: as many of them as bring the sequence to `target`.
RejectedInserts(target) ==
  /\ order_number_seq < target
  /\ order_number_seq' = target
  /\ lastOp' = Op("rejectedInserts", Null, "-", 0, TRUE, order_number_seq)
  /\ UNCHANGED <<orderFrame, orders, orderLog, rejected, rpcCalls>>

OrderNext ==
  \/ \E row \in OrderRows : InsertOrder(row)
  \/ \E target \in {10^5 - 1, 10^6 - 1} : RejectedInserts(target)
  \/ NewDay

OrderSpec == Init /\ [][OrderNext]_vars


\* ------------------------------------------------------------------ concurrent cart calls

\* .from('shopping_carts').insert({ user_id }).select('id').single(): the
\* insert fails on UNIQUE(user_id) and newCart is null.
InsertCartNoUnique(carts, u) ==
  [carts |-> Append(carts, CartRow(Len(carts) + 1, u)), id |-> Len(carts) + 1]
InsertCart(carts, u) ==
  IF CartOf(carts, u) # NoCart THEN [carts |-> carts, id |-> NoCart]
  ELSE [carts |-> Append(carts, CartRow(Len(carts) + 1, u)), id |-> Len(carts) + 1]

\* A caller may start a cart store call: it has none in flight, and the
\* user is signed in.
CanStart(c) ==
  running[c].pc = "idle" /\ user # NoUser /\ running[c].n < MaxStarts

\* removeItem up to its first await: the lines of the product are dropped.
StartRemoveItem(c, p) ==
  /\ CanStart(c)
  /\ items' = RemoveLines(items, p)
  /\ running' = [running EXCEPT
       ![c] = Run("removeItem", "select", p, 0, NoCart, running[c].n + 1)]
  /\ UNCHANGED <<raceFrame, expected, ledger, cartTables, analyticsVars, lastOp,
                 rejected, rpcCalls>>

\* updateQuantity up to its first await.
StartUpdateQuantity(c, p, q) ==
  IF q <= 0 THEN StartRemoveItem(c, p)
  ELSE /\ CanStart(c)
       /\ items' = SetQuantity(items, p, q)
       /\ running' = [running EXCEPT
            ![c] = Run("updateQuantity", "select", p, q, NoCart, running[c].n + 1)]
       /\ UNCHANGED <<raceFrame, expected, ledger, cartTables, analyticsVars, lastOp,
                      rejected, rpcCalls>>

\* addItem up to its first await.
StartAddItem(c, p, q) ==
  IF FindItem(items, p) # 0
  THEN StartUpdateQuantity(c, p, items[FindItem(items, p)].quantity + q)
  ELSE /\ CanStart(c)
       /\ items' = Append(items, Line(p, products[p], q))
       /\ running' = [running EXCEPT
            ![c] = Run("addItem", "track", p, q, NoCart, running[c].n + 1)]
       /\ UNCHANGED <<raceFrame, expected, ledger, cartTables, analyticsVars, lastOp,
                      rejected, rpcCalls>>

\* clearCart up to its first await.
StartClearCart(c) ==
  /\ CanStart(c)
  /\ items' = <<>>
  /\ running' = [running EXCEPT
       ![c] = Run("clearCart", "select", "-", 0, NoCart, running[c].n + 1)]
  /\ UNCHANGED <<raceFrame, expected, ledger, cartTables, analyticsVars, lastOp,
                 rejected, rpcCalls>>

\* await trackProductInteraction(product.id, 'cart_adds') returns.
Tracked(c) ==
  /\ running[c].pc = "track"
  /\ product_analytics' =
       trackProductInteraction(product_analytics, today, running[c].product_id,
                               "cart_adds", "ok").analytics
  /\ running' = [running EXCEPT ![c].pc = "select"]
  /\ UNCHANGED <<raceFrame, cartVars, today, pending, applied, issued, lastOp,
                 rejected, rpcCalls>>

\* The select on shopping_carts returns: addItem goes on to create a cart
\* when there is none, the other handlers stop there.
CartSelected(c) ==
  LET found == CartOf(shopping_carts, user)
  IN /\ running[c].pc = "select"
     /\ running' = [running EXCEPT
          ![c].cartId = found,
          ![c].pc = IF found # NoCart THEN "write"
                    ELSE IF running[c].op = "addItem" THEN "create" ELSE "idle"]
     /\ UNCHANGED <<raceFrame, cartVars, analyticsVars, lastOp, rejected, rpcCalls>>

\* addItem's insert into shopping_carts returns.
CartCreated(c) ==
  LET new == InsertCart(shopping_carts, user)
  IN /\ running[c].pc = "create"
     /\ shopping_carts' = new.carts
     /\ running' = [running EXCEPT ![c].cartId = new.id,
                                   ![c].pc = IF new.id # NoCart THEN "write" ELSE "idle"]
     /\ lastOp' = Op("createCart", running[c].product_id, "-", running[c].quantity,
                     new.id = NoCart, Len(shopping_carts))
     /\ UNCHANGED <<raceFrame, items, expected, ledger, cart_items, analyticsVars,
                    rejected, rpcCalls>>

\* The handler's write to cart_items returns and the handler ends.
ItemsWritten(c) ==
  LET r == running[c]
  IN /\ r.pc = "write"
     /\ cart_items' =
          IF r.op = "addItem"
          THEN Append(cart_items,
                      ItemRow(r.cartId, r.product_id, r.quantity, products[r.product_id]))
          ELSE IF r.op = "updateQuantity"
          THEN UpdateItem(cart_items, r.cartId, r.product_id, r.quantity)
          ELSE IF r.op = "removeItem" THEN DeleteItem(cart_items, r.cartId, r.product_id)
          ELSE DeleteAllItems(cart_items, r.cartId)
     /\ running' = [running EXCEPT ![c].pc = "idle"]
     /\ UNCHANGED <<raceFrame, items, expected, ledger, shopping_carts, analyticsVars,
                    lastOp, rejected, rpcCalls>>

RaceNext ==
  \/ \E u \in Users : user = NoUser /\ SignIn(u, "ok", "ok")
  \/ \E c \in Callers, p \in Products, q \in AddQuantities : StartAddItem(c, p, q)
  \/ \E c \in Callers, p \in Products, q \in QtyInputs : StartUpdateQuantity(c, p, q)
  \/ \E c \in Callers, p \in Products : StartRemoveItem(c, p)
  \/ \E c \in Callers : StartClearCart(c)
  \/ \E c \in Callers : Tracked(c)
  \/ \E c \in Callers : CartSelected(c)
  \/ \E c \in Callers : CartCreated(c)
  \/ \E c \in Callers : ItemsWritten(c)

RaceSpec == Init /\ [][RaceNext]_vars


\* ------------------------------------------------------------------ add-to-cart buttons

\* The pages with an add-to-cart button: the product feed card, the search
\* page, the wishlist page.
Surfaces == {"feed", "search", "wishlist"}

\* handleAddToCart: await addItem(product) and, on the product feed card,
\* trackProductInteraction(product.id, 'cart_adds') after it.
handleAddToCart(surface, its, carts, rows, tbl, u, d, p, pr, o, oTrack) ==
  LET e == addItem(its, carts, rows, tbl, u, d, p, pr, 1, o)
      t == trackProductInteraction(e.analytics, d, p, "cart_adds", oTrack)
  IN IF surface = "feed" /\ ~e.rejected
     THEN [e EXCEPT !.analytics = t.analytics, !.failed = @ \/ Failed(oTrack),
                    !.rpcCalls = @ + t.calls]
     ELSE e

\* The user presses the add-to-cart button of product p on a page; of the
\* backend calls the analytics calls may fail.
HandleAddToCart(surface, p, o, oTrack) ==
  LET e == handleAddToCart(surface, items, shopping_carts, cart_items,
                           product_analytics, user, today, p, products[p], o, oTrack)
      n == Counter(e.analytics, p, today, "cart_adds")
             - Counter(product_analytics, p, today, "cart_adds")
  IN /\ IF FindItem(items, p) = 0
        THEN /\ Len(items) < MaxLines
             /\ user # NoUser => Len(cart_items) < MaxRows
        ELSE /\ items[FindItem(items, p)].quantity + 1 <= MaxQty
             /\ o = AllOk
     /\ surface # "feed" => oTrack = "ok"
     /\ Counter(product_analytics, p, today, "cart_adds") < MaxCount
     /\ Commit(e,
               handleAddToCart(surface, items, shopping_carts, cart_items,
                               product_analytics, user, today, p, products[p], AllOk, "ok"),
               Op("handleAddToCart", p, surface, 1, FALSE, LineCount(items, p)))
     /\ ledger' = LedgerAdd(p, products[p], 1)
     /\ applied' = IF n > 0 THEN Credit(applied, p, today, "cart_adds", n) ELSE applied
     /\ issued' = IF n > 0 THEN Issue(issued, p, "cart_adds", n) ELSE issued

SurfaceNext ==
  \/ \E surface \in Surfaces, p \in Products, rpc \in Outcomes, oTrack \in Outcomes :
       HandleAddToCart(surface, p, [AllOk EXCEPT !.rpc = rpc], oTrack)
  \/ \E p \in Products : RemoveItem(p, AllOk)
  \/ \E u \in Users : user = NoUser /\ SignIn(u, "ok", "ok")
  \/ NewDay

SurfaceSpec == Init /\ [][SurfaceNext]_vars


\* ------------------------------------------------------------------ admin lookups in flight

\* signIn for account u: signInWithPassword succeeds, set({ user }), and
\* checkAdminStatus reads the user and sends its select.
SignInSends(u) ==
  /\ lookups[u] < MaxLookups
  /\ user' = u
  /\ lookups' = [lookups EXCEPT ![u] = @ + 1]
  /\ lastOp' = Op("signIn", u, "-", 0, FALSE, 1)
  /\ UNCHANGED <<isAdmin, lookupFrame, rejected, rpcCalls>>

\* The onAuthStateChange callback for a session of user u: set({ user }),
\* and checkAdminStatus reads the user and sends its select.
SessionSends(u) ==
  /\ listeners > 0
  /\ lookups[u] < MaxLookups
  /\ user' = u
  /\ lookups' = [lookups EXCEPT ![u] = @ + 1]
  /\ lastOp' = Op("sessionChange", u, "-", 0, FALSE, 1)
  /\ UNCHANGED <<isAdmin, lookupFrame, rejected, rpcCalls>>

\* A select sent by checkAdminStatus for user u returns: set({ isAdmin }).
LookupReturns(u, outcome) ==
  /\ lookups[u] > 0
  /\ lookups' = [lookups EXCEPT ![u] = @ - 1]
  /\ isAdmin' = checkAdminStatus(user_profiles, u, outcome)
  /\ lastOp' = Op("checkAdminStatus", u, "-", 0, Failed(outcome), 1)
  /\ UNCHANGED <<user, lookupFrame, rejected, rpcCalls>>

\* The auth store with the lookups of signIn and of the session listener in
\* flight while other handlers run.
AdminRaceNext ==
  \/ InitializeStart
  \/ \E u \in SessionUsers, oProfile \in Outcomes : InitializeSettle(u, "ok", oProfile)
  \/ \E u \in Users : SignInSends(u)
  \/ \E u \in Users : SessionSends(u)
  \/ \E u \in Users, outcome \in Outcomes : LookupReturns(u, outcome)
  \/ SessionChange(NoUser, "ok")
  \/ \E u \in Users, oAuth \in Outcomes : SignUp(u, oAuth, "ok")
  \/ \E oAuth \in Outcomes : SignOut(oAuth)

AdminRaceSpec == AuthInit /\ [][AdminRaceNext]_vars


\* ------------------------------------------------------------------ image uploader

\* The product form opens and mounts the uploader with an empty list.
Mount(allowMainSelection) ==
  /\ ~uploader.selecting
  /\ uploader' = [NoUploader EXCEPT !.allowMainSelection = allowMainSelection,
                                    !.nextId = uploader.nextId]
  /\ UNCHANGED <<uploaderFrame, lastOp, rejected, rpcCalls>>

\* The user picks or drops n files; one selection is in progress at a time.
HandleFileSelect(n) ==
  /\ ~RenderThrows(uploader)
  /\ ~uploader.selecting
  /\ uploader.nextId + n - 1 <= MaxSelected
  /\ uploader' = handleFileSelect(uploader, n)
  /\ UNCHANGED <<uploaderFrame, lastOp, rejected, rpcCalls>>

\* The awaits of the selection in progress are over.
FileSelectSettles(k) ==
  /\ uploader.selecting
  /\ k <= uploader.files
  /\ uploader' = fileSelectSettles(uploader, k)
  /\ UNCHANGED <<uploaderFrame, lastOp, rejected, rpcCalls>>

\* The remove button of the image at `index`.
RemoveImage(index) ==
  /\ ~RenderThrows(uploader)
  /\ index \in Indices(uploader.images)
  /\ uploader' = removeImage(uploader, index)
  /\ UNCHANGED <<uploaderFrame, lastOp, rejected, rpcCalls>>

\* The Set Main button, shown on images that are neither first nor main.
SetMainImage(index) ==
  /\ ~RenderThrows(uploader)
  /\ index \in Indices(uploader.images) \ {1}
  /\ ~uploader.images[index].isMain
  /\ uploader' = setMainImage(uploader, index)
  /\ UNCHANGED <<uploaderFrame, lastOp, rejected, rpcCalls>>

\* A drag of the image at `index` starts; no handler clears draggedIndex
\* when the drag ends without a drop on an image.
HandleDragStart(index) ==
  /\ ~RenderThrows(uploader)
  /\ index \in Indices(uploader.images)
  /\ uploader' = [uploader EXCEPT !.draggedIndex = index]
  /\ UNCHANGED <<uploaderFrame, lastOp, rejected, rpcCalls>>

\* Something is dropped on the image at dropIndex.
HandleImageDrop(dropIndex) ==
  /\ ~RenderThrows(uploader)
  /\ dropIndex \in Indices(uploader.images)
  /\ uploader' = handleImageDrop(uploader, dropIndex)
  /\ UNCHANGED <<uploaderFrame, lastOp, rejected, rpcCalls>>

UploaderNext ==
  \/ \E allowMainSelection \in BOOLEAN : Mount(allowMainSelection)
  \/ \E n \in 1..2 : HandleFileSelect(n)
  \/ \E k \in 0..2 : FileSelectSettles(k)
  \/ \E index \in 1..(maxImages + 1) : RemoveImage(index)
  \/ \E index \in 1..(maxImages + 1) : SetMainImage(index)
  \/ \E index \in 1..(maxImages + 1) : HandleDragStart(index)
  \/ \E dropIndex \in 1..(maxImages + 1) : HandleImageDrop(dropIndex)

UploaderSpec == Init /\ [][UploaderNext]_vars

\* ------------------------------------------------------------------ claims

MirrorOps == {"addItem", "removeItem", "updateQuantity", "clearCart"}

\* The server-side contents of the signed-in user's cart, as cart lines.
ServerLines == LinesOfRows(RowsOfCart(cart_items, CartOf(shopping_carts, user)))

\* C1: on a cart that only addItem calls have touched since it was empty,
\* getTotalItems() is the sum of the quantities added and getTotalPrice() is
\* the sum, per product, of the price taken when its line was appended times
\* the quantity added to it.
C1_TotalsEqualWhatWasAdded ==
  ledger.fresh =>
    /\ getTotalItems = SumOver(Products, [p \in Products |-> ledger.sums[p].qty])
    /\ getTotalPrice =
         SumOver(Products,
                 [p \in Products |-> ledger.sums[p].price * ledger.sums[p].qty])

\* C2: updateQuantity(p, q) with q <= 0 leaves the local cart and the cart
\* tables as removeItem(p) does: no line for p, every other line as it was and
\* in place; doing it again changes nothing.
C2_NonPositiveUpdateIsRemove ==
  [][(lastOp'.op = "updateQuantity" /\ lastOp'.quantity <= 0) =>
       LET p == lastOp'.product_id
       IN /\ \E o \in WriteOutcomes :
               LET r == removeItem(items, shopping_carts, cart_items,
                                   product_analytics, user, p, o)
               IN /\ items' = r.items
                  /\ shopping_carts' = r.carts
                  /\ cart_items' = r.rows
          /\ LineCount(items', p) = 0
          /\ items' = SelectSeq(items, LAMBDA l : l.product_id # p)
          /\ updateQuantity(items', shopping_carts', cart_items', product_analytics',
                            user', p, lastOp'.quantity, AllOk).items = items'
    ]_vars

C2_Witness ==
  /\ lastOp.op = "updateQuantity"
  /\ lastOp.quantity <= 0
  /\ lastOp.count = 1
  /\ Len(items) = 1
  /\ user # NoUser
  /\ ~lastOp.failed
  /\ Len(ServerLines) = 1

\* C3: with no user signed in, a cart operation leaves shopping_carts and
\* cart_items as they were.
C3_GuestLeavesCartTablesAlone ==
  [][(user = NoUser /\ lastOp'.op \in CartOps) =>
       (shopping_carts' = shopping_carts /\ cart_items' = cart_items)]_vars

C3_Witness ==
  /\ user = NoUser
  /\ lastOp.op = "removeItem"
  /\ lastOp.count = 1
  /\ \E i \in Indices(cart_items) : cart_items[i].product_id = lastOp.product_id

\* C4: for a signed-in user, an addItem, removeItem, updateQuantity or
\* clearCart in which a backend call failed does not reject, leaves the local
\* items the call leaves when every backend call succeeds, and (for the three
\* that write an existing row) the write that failed is not made later: the
\* rows stay as they were.
C4_FailedMirrorKeepsLocalUpdate ==
  [][(lastOp'.op \in MirrorOps /\ user # NoUser /\ lastOp'.failed) =>
       /\ ~rejected'
       /\ items' = expected'
       /\ (lastOp'.op # "addItem" /\ lastOp'.count > 0) => cart_items' = cart_items
    ]_vars

C4_Witness ==
  /\ lastOp.op = "removeItem"
  /\ lastOp.failed
  /\ lastOp.count = 1
  /\ user # NoUser
  /\ LineCount(items, lastOp.product_id) = 0
  /\ LineCount(ServerLines, lastOp.product_id) = 1

\* C5: the local cart holds at most one line per product_id.
C5_OneLinePerProduct ==
  \A i, j \in Indices(items) :
    i # j => items[i].product_id # items[j].product_id

\* C6: when loadCart() has completed for a signed-in user (here: with its
\* cart query answered), the local items are the server-side contents of that
\* user's cart.
C6_LoadCartMirrorsServer ==
  (lastOp.op = "loadCart" /\ user # NoUser /\ ~lastOp.failed) =>
    items = ServerLines

\* C7: every cart line, locally and in cart_items, has quantity >= 1.
C7_QuantityAtLeastOne ==
  /\ \A i \in Indices(items) : items[i].quantity >= 1
  /\ \A i \in Indices(cart_items) : cart_items[i].quantity >= 1

\* C8: each day's row of a product holds, in every counter, the sum of the
\* increments the calls for that product, day and metric carried (n calls
\* with increment i: n * i), revenue stays 0, and there is no row for a
\* product and day without a call.
C8_CountersAreSumsOfIncrements ==
  \A p \in Products, d \in Days :
    LET rows == {i \in Indices(product_analytics) :
                   /\ product_analytics[i].product_id = p
                   /\ product_analytics[i].date = d}
    IN /\ (rows = {}) <=> (\A m \in Metrics : Tally(applied, <<p, d, m>>) = 0)
       /\ \A i \in rows :
            /\ \A m \in Metrics :
                 product_analytics[i][m] = Tally(applied, <<p, d, m>>)
            /\ product_analytics[i].revenue = 0

C8_Witness ==
  /\ lastOp.op = "execute"
  /\ lastOp.metric = "views"
  /\ lastOp.quantity = 1
  /\ \E i \in Indices(product_analytics) :
       /\ product_analytics[i].product_id = lastOp.product_id
       /\ product_analytics[i].date = today
       /\ product_analytics[i].views = 2
       /\ \A m \in Metrics \ {"views"} : product_analytics[i][m] = 0

\* C9: with calls of several callers in flight together, a (product, date)
\* never has two rows, and for every product and metric the counters over all
\* days plus the increments still in flight equal the increments invoked:
\* none is lost, none is applied twice.
C9_ConcurrentIncrementsConserved ==
  /\ \A p \in Products, d \in Days : RowCount(product_analytics, p, d) <= 1
  /\ \A p \in Products, m \in Metrics :
       SumSeq([i \in Indices(product_analytics) |->
                 IF product_analytics[i].product_id = p
                 THEN product_analytics[i][m] ELSE 0])
       + SumOver({c \in Callers : pending[c].product_id = p /\ pending[c].metric = m},
                 [c \in Callers |-> pending[c].inc])
       = Tally(issued, <<p, m>>)

C9_Witness ==
  /\ lastOp.op = "execute"
  /\ lastOp.count = 1
  /\ \A c \in Callers : pending[c] = NoCall
  /\ \E p \in Products, m \in Metrics :
       /\ Tally(issued, <<p, m>>) = 2
       /\ Counter(product_analytics, p, today, m) = 2
       /\ lastOp.product_id = p /\ lastOp.metric = m /\ lastOp.quantity = 1
  /\ Len(product_analytics) = 1

\* C10: an invocation of trackProductInteraction issues one stored-procedure
\* call and its promise does not reject, whatever the call's outcome.
C10_TrackIssuesOneCallAndResolves ==
  lastOp.op = "track" => (rpcCalls = 1 /\ ~rejected)

C10_Witness ==
  /\ lastOp.op = "track"
  /\ lastOp.failed
  /\ product_analytics = <<>>

\* C11: for a signed-in user checkAdminStatus() does not reject, and leaves
\* isAdmin true exactly when the lookup succeeded and found a row with
\* is_admin = true; no row, an error result or an exception leave it false.
C11_AdminCheckFailsClosed ==
  (lastOp.op = "checkAdminStatus" /\ lastOp.count = 1) =>
    /\ ~rejected
    /\ isAdmin <=> (~lastOp.failed /\ user_profiles[user] = "admin")

C11_Witness ==
  /\ lastOp.op = "checkAdminStatus"
  /\ lastOp.count = 1
  /\ lastOp.failed
  /\ user_profiles[user] = "admin"
  /\ ~isAdmin

\* C12: a run of initialize() that awaits getUser() leads to
\* isLoading = false, whether getUser() answers or throws; isLoading, once
\* false, stays false; initialize() runs checkAdminStatus only with a user.
C12_InitializeClearsLoading ==
  /\ (initRun = "fetching") ~> (initRun = "idle" /\ ~isLoading)
  /\ [][~isLoading => ~isLoading']_vars
  /\ []((lastOp.op = "initialize" /\ lastOp.count = 1) => user # NoUser)

C12_Witness ==
  /\ lastOp.op = "initialize"
  /\ lastOp.failed
  /\ lastOp.count = 0
  /\ listeners = 1
  /\ ~isLoading

\* C13: a signUp that created the account returns no error and leaves the
\* store's user the new account, also when the profile insert failed; a signUp
\* whose account creation failed leaves the store's user as it was, and
\* returns the error when the call answered with one.
C13_SignUpSwallowsProfileFailure ==
  [][lastOp'.op = "signUp" =>
       /\ lastOp'.count = 1 =>
            (returned' = "ok" /\ ~rejected' /\ user' = lastOp'.product_id)
       /\ lastOp'.count = 0 =>
            (user' = user /\ (~rejected' => returned' = "error"))
    ]_vars

C13_Witness ==
  /\ lastOp.op = "signUp"
  /\ lastOp.count = 1
  /\ lastOp.failed
  /\ user = lastOp.product_id
  /\ user_profiles[user] = "none"
  /\ returned = "ok"

\* C14: uploadProductImage returns an error, without resizing and without a
\* storage upload call, for every file whose type is not image/jpeg,
\* image/png or image/webp or whose size exceeds 5 MB; a file of exactly 5 MB
\* with an allowed type passes validation (it reaches the resize).
C14_InvalidFilesNeverReachStorage ==
  lastOp.op = "uploadProductImage" =>
    LET file == lastUpload.file
        allowed == file.type \in {"image/jpeg", "image/png", "image/webp"}
    IN /\ (~allowed \/ file.size > 5 * 1024 * 1024) =>
            (lastUpload.error /\ lastUpload.resizes = 0 /\ lastUpload.uploads = 0
             /\ lastUpload.path = NoPath)
       /\ (allowed /\ file.size = 5 * 1024 * 1024) => lastUpload.resizes = 1

C14_Witness ==
  /\ lastOp.op = "uploadProductImage"
  /\ lastUpload.file.type = "image/png"
  /\ lastUpload.file.size = 6 * 1024 * 1024
  /\ lastUpload.error
  /\ lastUpload.uploads = 0
  /\ bucket # {}

\* C15: the dimensions resizeImage computes for the 1200 x 1200 box from a
\* w x h image are at most 1200 each, are in the ratio w : h, are at most w
\* and h, and are w and h themselves when the image is inside the box.
C15_ResizeFitsBoxKeepsAspect ==
  (lastOp.op = "uploadProductImage" /\ lastUpload.resizes = 1) =>
    LET w == lastUpload.file.width
        h == lastUpload.file.height
        W == lastUpload.width
        H == lastUpload.height
    IN /\ W.num <= 1200 * W.den /\ H.num <= 1200 * H.den
       /\ Times(W, h) = Times(H, w)
       /\ W.num <= w * W.den /\ H.num <= h * H.den
       /\ (w <= 1200 /\ h <= 1200) => (W = Whole(w) /\ H = Whole(h))

C15_Witness ==
  /\ lastOp.op = "uploadProductImage"
  /\ lastUpload.file.width = 2400
  /\ lastUpload.file.height = 1201
  /\ lastUpload.width = Whole(1200)
  /\ lastUpload.height = Ratio(1201 * 1200, 2400)
  /\ ~lastUpload.error
  /\ lastUpload.path \in bucket

\* C16: during a product submission, whenever inserting the product_media row
\* for an uploaded image fails, the blob uploaded for that image is deleted
\* before the failure is reported: it is not in the bucket afterwards.
C16_FailedInsertBlobDeleted ==
  (lastOp.op = "onSubmit" /\ lastSubmit.failedInsert # NoPath) =>
    /\ lastSubmit.reported
    /\ lastSubmit.failedInsert \notin bucket

\* C17: after any sequence of create and edit submissions, every product has
\* at most one product_media row with is_primary = true.
C17_OnePrimaryPerProduct ==
  \A p \in DOMAIN products :
    Cardinality({i \in Indices(product_media) :
                   product_media[i].product_id = p /\ product_media[i].is_primary}) <= 1

C19_RetriesTargetOriginal ==
  load.owner = "component" =>
    \A k \in Indices(load.tried) :
      load.tried[k] = IF k = 1 THEN getOptimizedImageUrl(image.src, image.width)
                      ELSE image.src

\* C20: each rendered image goes loading -> loaded | error; it ends in
\* loaded only when the requested image loaded, and when every attempt failed
\* it ends in error with the fallback URL (fallbackSrc when given) as its
\* current source.
C20_LoadedOnlyWhenLoaded ==
  /\ image.visited \in {<<>>, <<"loading">>, <<"loading", "loaded">>, <<"loading", "error">>}
  /\ image.imageState = "loaded" => image.outcome = "loaded"
  /\ image.outcome = "exhausted" =>
       /\ image.imageState = "error"
       /\ image.currentSrc = IF image.fallbackSrc # NoUrl THEN image.fallbackSrc
                              ELSE FALLBACK_PRODUCT_IMAGE

\* C21: after any sequence of imageCache set, get and clear calls the cache
\* never holds more than 100 entries.
C21_CacheAtMostLimit == Len(imageCache) <= 100

\* C22: for any number of orders inserted without an order_number, the
\* numbers the trigger generates are pairwise distinct, and such an insert
\* never collides with an earlier order's number.
C22_GeneratedNumbersDistinct ==
  LET auto == {i \in Indices(orderLog) : orderLog[i].sent.order_number = Null}
  IN /\ \A i, j \in auto : i # j => orderLog[i].number # orderLog[j].number
     /\ \A i \in auto : ~orderLog[i].collides

\* C23: an order insert changes nothing but order_number, and that only when
\* none was supplied: the row stored is the row sent, with its five amounts,
\* and a supplied order_number is stored as given.
C23_InsertChangesOnlyMissingNumber ==
  [][lastOp'.op = "insertOrder" =>
       LET e == orderLog'[Len(orderLog')]
       IN /\ orderLog' = Append(orderLog, e)
          /\ e.sent.order_number # Null =>
               (e.number = e.sent.order_number /\ order_number_seq' = order_number_seq)
          /\ e.sent.order_number = Null => order_number_seq' = order_number_seq + 1
          /\ orders' = IF e.collides THEN orders
                       ELSE Append(orders, [e.sent EXCEPT !.order_number = e.number])]_vars

C23_Witness ==
  /\ lastOp.op = "insertOrder" /\ ~lastOp.failed
  /\ Len(orders) = 2
  /\ orders[1].order_number = "ORD-20250630-000001"
  /\ orders[2].order_number = "PO-7"
  /\ orders[2].total_amount = 1 /\ orders[2].subtotal = 100

\* C24: for a signed-in user without a cart, any interleaving of concurrent
\* addItem calls leaves exactly one shopping_carts row for that user, never
\* two.
C24_OneCartPerUser ==
  LET mine == {i \in Indices(shopping_carts) : shopping_carts[i].user_id = user}
  IN /\ Cardinality(mine) <= 1
     /\ ((\A c \in Callers : running[c].pc = "idle") /\ items # <<>>) =>
          Cardinality(mine) = 1

C24_Witness ==
  /\ lastOp.op = "createCart" /\ lastOp.failed /\ lastOp.count = 1
  /\ \A c \in Callers : running[c].op = "addItem" /\ running[c].pc = "idle"
                        /\ running[c].n = 1
  /\ Len(shopping_carts) = 1 /\ shopping_carts[1].user_id = user

\* C27: for a user signed in throughout, from empty carts and with every
\* backend call succeeding, whenever no cart operation is in flight the
\* server's cart_items hold exactly one row per local line, with the same
\* product_id and quantity.
C27_MirrorWhenQuiet ==
  (user # NoUser /\ \A c \in Callers : running[c].pc = "idle") =>
    \A p \in Products, q \in 1..(MaxStarts * 2 * MaxQty) :
      Cardinality({i \in Indices(ServerLines) :
                     ServerLines[i].product_id = p /\ ServerLines[i].quantity = q})
        = Cardinality({i \in Indices(items) :
                         items[i].product_id = p /\ items[i].quantity = q})

\* C25: each press of an add-to-cart button, on the product feed, the search
\* page or the wishlist page, increments the product's cart_adds counter
\* exactly once when the product was not in the cart, and zero times when it
\* was (no backend call failing).
C25_CartAddsCountedOnce ==
  [][(lastOp'.op = "handleAddToCart" /\ ~lastOp'.failed) =>
       Counter(product_analytics', lastOp'.product_id, today, "cart_adds")
         = Counter(product_analytics, lastOp'.product_id, today, "cart_adds")
             + (IF lastOp'.count = 0 THEN 1 ELSE 0)]_vars

\* C26: in every reachable state of the auth store, isAdmin = true implies
\* that a user is signed in and that the is_admin flag was read from that
\* user's profile; a lookup that completes after signOut never makes isAdmin
\* true.
C26_AdminImpliesSignedInAdmin ==
  isAdmin => (user # NoUser /\ user_profiles[user] = "admin")

\* C28: when a product submission ends, successfully or with an error, every
\* image blob it uploaded that is still in the bucket is referenced by a
\* product_media row.
C28_NoOrphanedBlob ==
  lastOp.op = "onSubmit" =>
    \A path \in lastSubmit.uploaded \cap bucket :
      \E i \in Indices(product_media) : product_media[i].path = path

\* C29: once a submission has ended, every product row created through the
\* create form has at least one product_media row.
C29_CreatedProductHasMedia ==
  \A p \in NewProducts \cap DOMAIN products :
    \E i \in Indices(product_media) : product_media[i].product_id = p

\* C30: after any sequence of file selections, removals, drag-reorders and
\* set-main actions in the image uploader, the image list never exceeds
\* maxImages and, whenever it is non-empty, exactly one image is flagged
\* isMain; with main selection disabled that image is the one at index 0.
C30_OneMainWithinLimit ==
  ~uploader.selecting =>
    /\ Len(uploader.images) <= maxImages
    /\ uploader.images # <<>> =>
         /\ Cardinality({i \in Indices(uploader.images) : uploader.images[i].isMain}) = 1
         /\ ~uploader.allowMainSelection => uploader.images[1].isMain

====
